---- MODULE Spec2Model ----
(***************************************************************************)
(* Model of the camogie-team-optimizer solver core: the MiniZincService    *)
(* session (init / solve), its capability check, the extraction of a       *)
(* SolverResult from the raw minizinc-js response and the formatting of    *)
(* engine errors.                                                          *)
(*                                                                         *)
(* JavaScript values are records tagged by t: "undefined", "null",         *)
(* "bool", "num", "str", "arr", "obj".  Primitives carry their text in v;  *)
(* an object carries a total map f from the property names the code reads  *)
(* to values, an absent property being Undef.                              *)
(***************************************************************************)
EXTENDS Integers, Sequences, FiniteSets, TLC

VARIABLES
  mode,          \* MiniZincService.mode
  initialized,   \* MiniZincService.initialized
  env,           \* process.env: MINIZINC_BIN, MINIZINC_AVAILABLE_SOLVERS
  engineInits,   \* number of MiniZinc.init invocations
  engineSolves,  \* number of model.solve invocations
  engineReady,   \* whether a MiniZinc.init invocation has resolved
  engineInitFailures, \* number of MiniZinc.init invocations that rejected
  engineConfig,  \* argument of the last MiniZinc.init invocation
  calls,         \* the calls in flight on the session, by slot
  issued,        \* number of calls issued so far
  completed,     \* number of calls that have returned or thrown
  started,       \* the call issued last: [op, solver, onReady]
  last,          \* the call completed last, with its outcome
  npc,           \* position inside the try/catch of solve: "await" | "done"
  settled,       \* how `await solve` settled: [kind, value]
  outcome,       \* what solve did with it: [kind, result, error]
  renorm,        \* what the extraction makes of that result taken as a response
  reported,      \* what getAvailableSolvers returned: [called, solvers]
  csvText,       \* the CSV text handed in, a sequence of characters
  parsedCsv,     \* what parseCSV made of it: [called, res]
  scenario,      \* the scenario id handed in: [given, id]
  handled,       \* what a front-end did with the request: [by, kind, ...]
  bundleParsed,  \* what the page's own parseCSV made of csvText: [called, res]
  roster,        \* players, assignment and solution handed to a team split
  teams,         \* the teams and totals a front-end reported for them
  page           \* the page in the browser: its variables and controls

vars == <<mode, initialized, env, engineInits, engineSolves, engineReady,
          engineInitFailures, engineConfig, calls, issued, completed, started, last,
          npc, settled, outcome, renorm, reported, csvText, parsedCsv,
          scenario, handled, bundleParsed, roster, teams, page>>

sessionVars == <<mode, initialized, env, engineInits, engineSolves,
                 engineReady, engineInitFailures, engineConfig, calls, issued, completed,
                 started, last>>
normVars == <<npc, settled, outcome, renorm>>
capsVars == <<reported>>
csvVars == <<csvText, parsedCsv>>
frontVars == <<scenario, handled>>
uiVars == <<bundleParsed, roster, teams, page>>
pureVars == <<normVars, capsVars, csvVars, frontVars, uiVars>>

-----------------------------------------------------------------------------
(* JavaScript values *)

Fields == {"output", "status", "result", "solution", "statistics",
           "default", "json", "assignment", "message", "extra"}

Undef == [t |-> "undefined"]
Null == [t |-> "null"]
Bool(b) == [t |-> "bool", v |-> b]
Num(n) == [t |-> "num", v |-> n]
Str(s) == [t |-> "str", v |-> s]
Arr(es) == [t |-> "arr", e |-> es]
Obj(props) ==
  [t |-> "obj",
   f |-> [n \in Fields |-> IF n \in DOMAIN props THEN props[n] ELSE Undef]]
EmptyObj == [t |-> "obj", f |-> [n \in Fields |-> Undef]]

\* ToBoolean: undefined, null, false, 0 and "" are falsy
Truthy(x) ==
  CASE x.t \in {"undefined", "null"} -> FALSE
    [] x.t = "bool" -> x.v = "true"
    [] x.t = "num" -> x.v # "0"
    [] x.t = "str" -> x.v # ""
    [] OTHER -> TRUE

Nullish(x) == x.t \in {"undefined", "null"}

\* a || b
Or(a, b) == IF Truthy(a) THEN a ELSE b

\* a ?? b
Coalesce(a, b) == IF Nullish(a) THEN b ELSE a

\* x?.name : undefined on null/undefined, the property otherwise (a
\* primitive has none of the names in Fields)
Opt(x, name) == IF x.t = "obj" THEN x.f[name] ELSE Undef

-----------------------------------------------------------------------------
(* JSON text.  A string that the code hands to JSON.parse is looked up in  *)
(* Lex, which gives its characters as a sequence of tokens; Trim and       *)
(* JSONParse work on the tokens.                                           *)

Ws == [k |-> "ws", v |-> " "]
P(c) == [k |-> "punct", v |-> c]
Lit(w) == [k |-> "lit", v |-> w]
NumTok(n) == [k |-> "num", v |-> n]
StrTok(s) == [k |-> "str", v |-> s]
Bad(w) == [k |-> "bad", v |-> w]

\* the output texts an engine response may carry
OutputTexts ==
  { "",
    " ",
    "=====UNSATISFIABLE=====",
    " {\"status\":\"UNSATISFIABLE\"} ",
    "{\"solution\":{\"assignment\":[0,1]}}",
    "{\"status\":\"ALL_SOLUTIONS\",\"solution\":{\"assignment\":[1,0]},\"statistics\":{\"extra\":7}}",
    "{\"status\":\"\",\"solution\":null}",
    "{}",
    "{ \"extra\" : 7 , }",
    "{\"status\":",
    "{} ----------",
    "null", "0", "false", "\"\"", "7", "[0,1]", "\"SATISFIED\"" }

Lex(s) ==
  CASE s = "" -> <<>>
    [] s = " " -> <<Ws>>
    [] s = "=====UNSATISFIABLE=====" -> <<Bad("=====UNSATISFIABLE=====")>>
    [] s = " {\"status\":\"UNSATISFIABLE\"} " ->
         <<Ws, P("{"), StrTok("status"), P(":"), StrTok("UNSATISFIABLE"),
           P("}"), Ws>>
    [] s = "{\"solution\":{\"assignment\":[0,1]}}" ->
         <<P("{"), StrTok("solution"), P(":"), P("{"), StrTok("assignment"),
           P(":"), P("["), NumTok("0"), P(","), NumTok("1"), P("]"), P("}"),
           P("}")>>
    [] s = "{\"status\":\"ALL_SOLUTIONS\",\"solution\":{\"assignment\":[1,0]},\"statistics\":{\"extra\":7}}" ->
         <<P("{"), StrTok("status"), P(":"), StrTok("ALL_SOLUTIONS"), P(","),
           StrTok("solution"), P(":"), P("{"), StrTok("assignment"), P(":"),
           P("["), NumTok("1"), P(","), NumTok("0"), P("]"), P("}"), P(","),
           StrTok("statistics"), P(":"), P("{"), StrTok("extra"), P(":"),
           NumTok("7"), P("}"), P("}")>>
    [] s = "{\"status\":\"\",\"solution\":null}" ->
         <<P("{"), StrTok("status"), P(":"), StrTok(""), P(","),
           StrTok("solution"), P(":"), Lit("null"), P("}")>>
    [] s = "{}" -> <<P("{"), P("}")>>
    [] s = "{ \"extra\" : 7 , }" ->
         <<P("{"), Ws, StrTok("extra"), Ws, P(":"), Ws, NumTok("7"), Ws,
           P(","), Ws, P("}")>>
    [] s = "{\"status\":" -> <<P("{"), StrTok("status"), P(":")>>
    [] s = "{} ----------" -> <<P("{"), P("}"), Ws, Bad("----------")>>
    [] s = "null" -> <<Lit("null")>>
    [] s = "0" -> <<NumTok("0")>>
    [] s = "false" -> <<Lit("false")>>
    [] s = "\"\"" -> <<StrTok("")>>
    [] s = "7" -> <<NumTok("7")>>
    [] s = "[0,1]" -> <<P("["), NumTok("0"), P(","), NumTok("1"), P("]")>>
    [] s = "\"SATISFIED\"" -> <<StrTok("SATISFIED")>>
    [] OTHER -> <<Bad(s)>>

RECURSIVE TrimStart(_)
TrimStart(toks) ==
  IF toks # <<>> /\ Head(toks).k = "ws" THEN TrimStart(Tail(toks)) ELSE toks

RECURSIVE TrimEnd(_)
TrimEnd(toks) ==
  IF toks # <<>> /\ toks[Len(toks)].k = "ws"
    THEN TrimEnd(SubSeq(toks, 1, Len(toks) - 1))
    ELSE toks

\* String.prototype.trim
Trim(toks) == TrimEnd(TrimStart(toks))

ParseFail == [ok |-> FALSE, val |-> Undef, next |-> 0]
ParseOk(x, i) == [ok |-> TRUE, val |-> x, next |-> i]

RECURSIVE SkipWs(_, _)
SkipWs(toks, i) ==
  IF i <= Len(toks) /\ toks[i].k = "ws" THEN SkipWs(toks, i + 1) ELSE i

IsPunct(toks, i, c) == i <= Len(toks) /\ toks[i] = P(c)

RECURSIVE ParseValue(_, _)
RECURSIVE ParseMembers(_, _, _, _)
RECURSIVE ParseElements(_, _, _, _)

\* a JSON value starting at token i (leading white space allowed)
ParseValue(toks, i) ==
  LET j == SkipWs(toks, i) IN
  IF j > Len(toks) THEN ParseFail
  ELSE LET tk == toks[j] IN
    CASE tk.k = "lit" /\ tk.v = "null" -> ParseOk(Null, j + 1)
      [] tk.k = "lit" /\ tk.v \in {"true", "false"} -> ParseOk(Bool(tk.v), j + 1)
      [] tk.k = "num" -> ParseOk(Num(tk.v), j + 1)
      [] tk.k = "str" -> ParseOk(Str(tk.v), j + 1)
      [] tk = P("{") -> ParseMembers(toks, j + 1, EmptyObj.f, TRUE)
      [] tk = P("[") -> ParseElements(toks, j + 1, <<>>, TRUE)
      [] OTHER -> ParseFail

\* the members of an object after "{" or after ","; a key the code never
\* reads (one outside Fields) is parsed and dropped
ParseMembers(toks, i, acc, first) ==
  LET j == SkipWs(toks, i) IN
  IF first /\ IsPunct(toks, j, "}") THEN ParseOk([t |-> "obj", f |-> acc], j + 1)
  ELSE IF j > Len(toks) \/ toks[j].k # "str" THEN ParseFail
  ELSE LET c == SkipWs(toks, j + 1) IN
    IF ~IsPunct(toks, c, ":") THEN ParseFail
    ELSE LET r == ParseValue(toks, c + 1) IN
      IF ~r.ok THEN ParseFail
      ELSE LET e == SkipWs(toks, r.next)
               key == toks[j].v
               acc2 == IF key \in Fields
                         THEN [acc EXCEPT ![key] = r.val] ELSE acc
           IN
        IF IsPunct(toks, e, ",") THEN ParseMembers(toks, e + 1, acc2, FALSE)
        ELSE IF IsPunct(toks, e, "}")
          THEN ParseOk([t |-> "obj", f |-> acc2], e + 1)
        ELSE ParseFail

\* the elements of an array after "[" or after ","
ParseElements(toks, i, acc, first) ==
  LET j == SkipWs(toks, i) IN
  IF first /\ IsPunct(toks, j, "]") THEN ParseOk(Arr(acc), j + 1)
  ELSE LET r == ParseValue(toks, j) IN
    IF ~r.ok THEN ParseFail
    ELSE LET e == SkipWs(toks, r.next) IN
      IF IsPunct(toks, e, ",")
        THEN ParseElements(toks, e + 1, Append(acc, r.val), FALSE)
      ELSE IF IsPunct(toks, e, "]") THEN ParseOk(Arr(Append(acc, r.val)), e + 1)
      ELSE ParseFail

\* JSON.parse: the whole text must be one value; ok = FALSE is a SyntaxError
JSONParse(toks) ==
  LET r == ParseValue(toks, 1) IN
  IF r.ok /\ SkipWs(toks, r.next) = Len(toks) + 1 THEN r ELSE ParseFail

-----------------------------------------------------------------------------
(* Result extraction: the body of the try block of solve after             *)
(* `await solve` has produced the raw response r.                          *)

\* resultAny?.output ?? resultAny?.solution?.output?.default ?? null
RawOutput(r) ==
  Coalesce(Coalesce(Opt(r, "output"),
                    Opt(Opt(Opt(r, "solution"), "output"), "default")),
           Null)

\* let parsed = null; if (typeof rawOutput === 'string') try { parsed =
\* JSON.parse(rawOutput.trim()) } catch { }
Parsed(r) ==
  LET raw == RawOutput(r) IN
  IF raw.t = "str"
    THEN LET p == JSONParse(Trim(Lex(raw.v))) IN IF p.ok THEN p.val ELSE Null
    ELSE Null

\* the status chain with the direct status field probed after the nested ones
ExtractStatusReordered(r) ==
  LET parsed == Parsed(r) IN
  Or(Or(Or(Or(Opt(parsed, "status"),
              Opt(Opt(r, "result"), "status")),
           Opt(Opt(r, "solution"), "status")),
        Opt(r, "status")),
     IF Truthy(parsed) THEN Str("OPTIMAL") ELSE Str("UNKNOWN"))

\* the status chain with a constant last resort
ExtractStatusNoUnknown(r) ==
  LET parsed == Parsed(r) IN
  Or(Or(Or(Or(Opt(parsed, "status"),
              Opt(r, "status")),
           Opt(Opt(r, "result"), "status")),
        Opt(Opt(r, "solution"), "status")),
     Str("OPTIMAL"))

\* the status chain that ignores whether a JSON block was parsed
ExtractStatusNoOptimal(r) ==
  LET parsed == Parsed(r) IN
  Or(Or(Or(Or(Opt(parsed, "status"),
              Opt(r, "status")),
           Opt(Opt(r, "result"), "status")),
        Opt(Opt(r, "solution"), "status")),
     Str("UNKNOWN"))

ExtractStatus(r) ==
  LET parsed == Parsed(r) IN
  Or(Or(Or(Or(Opt(parsed, "status"),
              Opt(r, "status")),
           Opt(Opt(r, "result"), "status")),
        Opt(Opt(r, "solution"), "status")),
     IF Truthy(parsed) THEN Str("OPTIMAL") ELSE Str("UNKNOWN"))

\* the solution chain of the earlier service version (main.ts 164-169),
\* which does not look at solution.output.json
ExtractSolutionEarlier(r) ==
  LET parsed == Parsed(r) IN
  Or(Or(Or(Or(Opt(parsed, "solution"),
              Opt(Opt(r, "solution"), "solution")),
           Opt(r, "solution")),
        Opt(r, "result")),
     Null)

ExtractSolution(r) ==
  LET parsed == Parsed(r) IN
  Or(Or(Or(Or(Or(Opt(parsed, "solution"),
                 Opt(Opt(Opt(r, "solution"), "output"), "json")),
              Opt(Opt(r, "solution"), "solution")),
           Opt(r, "solution")),
        Opt(r, "result")),
     Null)

ExtractStatistics(r) ==
  LET parsed == Parsed(r) IN
  Or(Or(Or(Opt(parsed, "statistics"),
           Opt(r, "statistics")),
        Opt(Opt(r, "result"), "statistics")),
     Null)

\* the SolverResult returned from the try block (solveTime is a clock
\* reading and is left out)
ExtractResult(r) ==
  [status |-> ExtractStatus(r),
   solution |-> ExtractSolution(r),
   statistics |-> ExtractStatistics(r),
   errorMessage |-> Undef]

-----------------------------------------------------------------------------
(* Error formatting: the catch block of solve.  A thrown object is         *)
(* [t |-> "errobj", cls, message, toStr, circular]: cls "Error" is an      *)
(* Error instance, "Object" a plain object, "NullProto" an object without  *)
(* Object.prototype; toStr is what its toString() returns ("default" for   *)
(* the inherited one); circular says whether it references itself.         *)

ErrObj(cls, message, toStr, circular) ==
  [t |-> "errobj", cls |-> cls, message |-> message, toStr |-> toStr,
   circular |-> circular]

\* errObj.toString(), Undef when the object has no toString
ToStringOf(e) ==
  CASE e.cls = "NullProto" -> Undef
    [] e.toStr = "default" -> Str("[object Object]")
    [] OTHER -> Str(e.toStr)

\* JSON.stringify(error): a TypeError on a circular structure
JSONStringify(e) ==
  IF e.circular THEN [threw |-> TRUE, msg |-> Undef]
  ELSE [threw |-> FALSE,
        msg |-> IF e.message.t = "undefined" THEN Str("{}")
                ELSE Str("{\"message\":" \o e.message.v \o "}")]

FormatError(e) ==
  CASE e.t = "errobj" /\ e.cls = "Error" -> [threw |-> FALSE, msg |-> e.message]
    [] e.t = "str" -> [threw |-> FALSE, msg |-> e]
    [] e.t = "errobj" /\ e.cls # "Error" ->
         IF e.message.t = "str" THEN [threw |-> FALSE, msg |-> e.message]
         ELSE IF Truthy(ToStringOf(e)) /\ ToStringOf(e) # Str("[object Object]")
           THEN [threw |-> FALSE, msg |-> ToStringOf(e)]
         ELSE JSONStringify(e)
    [] OTHER -> [threw |-> FALSE, msg |-> Str("Unknown error")]

NoResult ==
  [status |-> Undef, solution |-> Undef, statistics |-> Undef,
   errorMessage |-> Undef]

NoOutcome == [kind |-> "none", result |-> NoResult, error |-> ""]
Resolved(res) == [kind |-> "resolved", result |-> res, error |-> ""]
Rejected(err) == [kind |-> "rejected", result |-> NoResult, error |-> err]

\* what solve returns or throws once `await solve` has settled
SolveSettle(s) ==
  IF s.kind = "resolved" THEN Resolved(ExtractResult(s.value))
  ELSE LET m == FormatError(s.value) IN
    IF m.threw THEN Rejected("TypeError")
    ELSE Resolved([status |-> Str("ERROR"), solution |-> Null,
                   statistics |-> Null, errorMessage |-> m.msg])

-----------------------------------------------------------------------------
(* The engine's behaviour: the raw responses `await solve` may resolve to  *)
(* and the values it may reject with.                                      *)

Assign10 == Obj([assignment |-> Arr(<<Num("1"), Num("0")>>)])
Assign11 == Obj([assignment |-> Arr(<<Num("1"), Num("1")>>)])
Stats(n) == Obj([extra |-> Num(n)])

OutputChoices ==
  {Undef, Null, Arr(<<>>)} \cup {Str(s) : s \in OutputTexts}

StatusChoices == {Undef, Str(""), Str("SATISFIED"), Str("OPTIMAL_SOLUTION")}

ResultChoices ==
  { Undef, Null,
    Obj([status |-> Str("UNBOUNDED")]),
    Obj([statistics |-> Stats("3")]),
    Obj([status |-> Str("ERROR"), statistics |-> Stats("3")]) }

SolutionChoices ==
  { Undef, Null, Str("no solution"),
    Obj([status |-> Str("UNSAT_OR_UNBOUNDED")]),
    Obj([solution |-> Assign11]),
    Obj([output |-> Obj([json |-> Assign10])]),
    Obj([output |-> Obj([default |-> Str("=====UNSATISFIABLE=====")])]),
    Obj([output |-> Obj([default |-> Str(" {\"status\":\"UNSATISFIABLE\"} ")])]),
    Obj([output |-> Obj([default |-> Str("{}")])]),
    Obj([status |-> Str("OPTIMAL"), solution |-> Assign11,
         output |-> Obj([json |-> Assign10,
                         default |-> Str("{\"solution\":{\"assignment\":[0,1]}}")])]) }

StatisticsChoices == {Undef, Stats("5")}
ExtraChoices == {Undef, Str("warning")}

RawResponses ==
  {Undef, Null, Num("0"), Num("42"), Str("done"), Bool("true")} \cup
  { Obj([output |-> o, status |-> st, result |-> rs, solution |-> so,
         statistics |-> sx, extra |-> ex]) :
      o \in OutputChoices, st \in StatusChoices, rs \in ResultChoices,
      so \in SolutionChoices, sx \in StatisticsChoices, ex \in ExtraChoices }

ThrownValues ==
  {Undef, Null, Num("1"), Str(""), Str("solver not found")} \cup
  { ErrObj("Error", Str(m), "default", c) :
      m \in {"", "MiniZinc exited with code 1"}, c \in BOOLEAN } \cup
  { ErrObj(cls, m, ts, c) :
      cls \in {"Object", "NullProto"},
      m \in {Undef, Str(""), Str("engine crashed"), Num("500")},
      ts \in {"default", "", "EngineError"},
      c \in BOOLEAN }

Settlements ==
  {[kind |-> "resolved", value |-> r] : r \in RawResponses} \cup
  {[kind |-> "rejected", value |-> e] : e \in ThrownValues}

-----------------------------------------------------------------------------
(* Player data: parseCSV of the shared utilities.  A JavaScript string is  *)
(* the sequence of its characters; a value that may be undefined is       *)
(* [def, s].                                                               *)

WsChars == {" ", "\t", "\r", "\n"}

RECURSIVE StrTrimStart(_)
StrTrimStart(str) ==
  IF str # <<>> /\ Head(str) \in WsChars THEN StrTrimStart(Tail(str)) ELSE str

RECURSIVE StrTrimEnd(_)
StrTrimEnd(str) ==
  IF str # <<>> /\ str[Len(str)] \in WsChars
    THEN StrTrimEnd(SubSeq(str, 1, Len(str) - 1))
    ELSE str

\* String.prototype.trim on a sequence of characters
StrTrim(str) == StrTrimEnd(StrTrimStart(str))

\* the position of the first sep in str, 0 when there is none
FirstAt(str, sep) ==
  IF \E i \in DOMAIN str : str[i] = sep
    THEN CHOOSE i \in DOMAIN str :
           str[i] = sep /\ \A j \in 1..(i - 1) : str[j] # sep
    ELSE 0

\* String.prototype.split(sep) for a one character separator
RECURSIVE Split(_, _)
Split(str, sep) ==
  LET i == FirstAt(str, sep) IN
  IF i = 0 THEN <<str>>
  ELSE <<SubSeq(str, 1, i - 1)>> \o Split(SubSeq(str, i + 1, Len(str)), sep)

UpperChars ==
  <<"A", "B", "C", "D", "E", "F", "G", "H", "I", "J", "K", "L", "M",
    "N", "O", "P", "Q", "R", "S", "T", "U", "V", "W", "X", "Y", "Z">>
LowerChars ==
  <<"a", "b", "c", "d", "e", "f", "g", "h", "i", "j", "k", "l", "m",
    "n", "o", "p", "q", "r", "s", "t", "u", "v", "w", "x", "y", "z">>

\* String.prototype.toLowerCase
ToLowerCase(str) ==
  [i \in DOMAIN str |->
     IF \E k \in DOMAIN UpperChars : UpperChars[k] = str[i]
       THEN LowerChars[CHOOSE k \in DOMAIN UpperChars : UpperChars[k] = str[i]]
       ELSE str[i]]

\* Array.prototype.indexOf: the 0-based index of the first x, -1 without one
IndexOf(arr, x) ==
  IF \E i \in DOMAIN arr : arr[i] = x
    THEN (CHOOSE i \in DOMAIN arr :
            arr[i] = x /\ \A j \in 1..(i - 1) : arr[j] # x) - 1
    ELSE -1

Undefined == [def |-> FALSE, s |-> <<>>]
Defined(str) == [def |-> TRUE, s |-> str]

\* arr[idx] for a 0-based idx
At(arr, idx) == IF idx + 1 \in DOMAIN arr THEN Defined(arr[idx + 1]) ELSE Undefined

\* x?.trim()
OptTrim(x) == IF x.def THEN Defined(StrTrim(x.s)) ELSE Undefined

\* x?.toLowerCase()
OptLower(x) == IF x.def THEN Defined(ToLowerCase(x.s)) ELSE Undefined

\* x || dflt on strings: undefined and "" are falsy
StrOr(x, dflt) == IF x.def /\ x.s # <<>> THEN x.s ELSE dflt

DigitChars == <<"0", "1", "2", "3", "4", "5", "6", "7", "8", "9">>
IsDigit(c) == \E k \in DOMAIN DigitChars : DigitChars[k] = c
DigitValue(c) == (CHOOSE k \in DOMAIN DigitChars : DigitChars[k] = c) - 1

\* the value of the longest run of digits at the head of str, after acc
RECURSIVE DigitsValue(_, _)
DigitsValue(str, acc) ==
  IF str # <<>> /\ IsDigit(Head(str))
    THEN DigitsValue(Tail(str), 10 * acc + DigitValue(Head(str)))
    ELSE acc

NaN == [nan |-> TRUE, n |-> 0]

\* parseInt(x, 10): leading white space, an optional sign, then digits up to
\* the first other character; NaN without a digit, and for undefined
ParseInt(x) ==
  IF ~x.def THEN NaN
  ELSE LET t == StrTrimStart(x.s)
           signed == t # <<>> /\ Head(t) \in {"+", "-"}
           d == IF signed THEN Tail(t) ELSE t
       IN IF d = <<>> \/ ~IsDigit(Head(d)) THEN NaN
          ELSE [nan |-> FALSE,
                n |-> IF signed /\ Head(t) = "-"
                        THEN 0 - DigitsValue(d, 0) ELSE DigitsValue(d, 0)]

\* String(i) for i >= 0
RECURSIVE ToStr(_)
ToStr(i) ==
  IF i < 10 THEN <<DigitChars[i + 1]>>
  ELSE ToStr(i \div 10) \o <<DigitChars[(i % 10) + 1]>>

W_name == <<"n", "a", "m", "e">>
W_rating == <<"r", "a", "t", "i", "n", "g">>
W_position == <<"p", "o", "s", "i", "t", "i", "o", "n">>
W_forward == <<"f", "o", "r", "w", "a", "r", "d">>
W_midfield == <<"m", "i", "d", "f", "i", "e", "l", "d">>
W_defense == <<"d", "e", "f", "e", "n", "s", "e">>
W_unknown == <<"u", "n", "k", "n", "o", "w", "n">>
W_Player == <<"P", "l", "a", "y", "e", "r", " ">>

\* POSITIONS: index by position name
POSITIONS ==
  [forward |-> Num("1"), midfield |-> Num("2"), defense |-> Num("3"),
   unknown |-> Num("0")]

\* the lower case property names every object inherits from Object.prototype
InheritedNames == {<<"c", "o", "n", "s", "t", "r", "u", "c", "t", "o", "r">>, <<"_", "_", "p", "r", "o", "t", "o", "_", "_">>}

\* (POSITIONS[position] || POSITIONS.unknown).index : an own key gives its
\* index, an inherited property is truthy and has no index, anything else
\* falls back to POSITIONS.unknown
PositionIndex(position) ==
  CASE position = W_forward -> POSITIONS.forward
    [] position = W_midfield -> POSITIONS.midfield
    [] position = W_defense -> POSITIONS.defense
    [] position = W_unknown -> POSITIONS.unknown
    [] position \in InheritedNames -> Undef
    [] OTHER -> POSITIONS.unknown

NoPlayers ==
  [players |-> <<>>, ratings |-> <<>>, positions |-> <<>>,
   position_indices |-> <<>>]

\* the four pushes of an accepted row that leave the index array alone for a
\* position without a code of its own
PushPlayerKnownOnly(acc, name, rating, position) ==
  [players |-> Append(acc.players,
                      [name |-> name, rating |-> rating, position |-> position]),
   ratings |-> Append(acc.ratings, rating),
   positions |-> Append(acc.positions, position),
   position_indices |->
     IF PositionIndex(position) = POSITIONS.unknown
       THEN acc.position_indices
       ELSE Append(acc.position_indices, PositionIndex(position))]

\* the four pushes with the rating brought into the documented range 1-10
PushPlayerClamped(acc, name, rating, position) ==
  LET clamped == IF rating < 1 THEN 1 ELSE IF rating > 10 THEN 10 ELSE rating IN
  [players |-> Append(acc.players,
                      [name |-> name, rating |-> clamped, position |-> position]),
   ratings |-> Append(acc.ratings, clamped),
   positions |-> Append(acc.positions, position),
   position_indices |-> Append(acc.position_indices, PositionIndex(position))]

\* players.push(...); ratings.push(...); positions.push(...);
\* positionIndices.push(positionConfig.index)
PushPlayer(acc, name, rating, position) ==
  [players |-> Append(acc.players,
                      [name |-> name, rating |-> rating, position |-> position]),
   ratings |-> Append(acc.ratings, rating),
   positions |-> Append(acc.positions, position),
   position_indices |-> Append(acc.position_indices, PositionIndex(position))]

\* the body of the row loop for lines[i] (i 0-based)
ParseRow(acc, lines, i, nameIdx, ratingIdx, positionIdx) ==
  LET line == StrTrim(lines[i + 1])
      values == Split(line, ",")
      name == StrOr(OptTrim(At(values, nameIdx)), W_Player \o ToStr(i))
      rating == ParseInt(OptTrim(At(values, ratingIdx)))
      positionRaw ==
        IF positionIdx # -1 THEN OptLower(OptTrim(At(values, positionIdx)))
        ELSE Defined(W_unknown)
      position == StrOr(positionRaw, W_unknown)
  IN IF line = <<>> THEN acc
     ELSE IF Len(values) >= 2 /\ ~rating.nan
       THEN PushPlayer(acc, name, rating.n, position)
     ELSE acc

\* for (let i = 1; i < lines.length; i++) { ... }
RECURSIVE ParseRows(_, _, _, _, _, _)
ParseRows(acc, lines, i, nameIdx, ratingIdx, positionIdx) ==
  IF i >= Len(lines) THEN acc
  ELSE ParseRows(ParseRow(acc, lines, i, nameIdx, ratingIdx, positionIdx),
                 lines, i + 1, nameIdx, ratingIdx, positionIdx)

CsvThrew(msg) ==
  [threw |-> TRUE, error |-> msg, num_players |-> 0, players |-> <<>>,
   ratings |-> <<>>, positions |-> <<>>, position_indices |-> <<>>]

parseCSV(text) ==
  LET lines == Split(StrTrim(text), "\n") IN
  IF Len(lines) < 2
    THEN CsvThrew("CSV must have at least a header and one data row")
  ELSE
    LET cells == Split(lines[1], ",")
        headers == [k \in DOMAIN cells |-> ToLowerCase(StrTrim(cells[k]))]
        nameIdx == IndexOf(headers, W_name)
        ratingIdx == IndexOf(headers, W_rating)
        positionIdx == IndexOf(headers, W_position)
    IN IF nameIdx = -1 \/ ratingIdx = -1
         THEN CsvThrew("CSV must contain \"name\" and \"rating\" columns")
       ELSE
         LET acc == ParseRows(NoPlayers, lines, 1, nameIdx, ratingIdx,
                              positionIdx)
         IN IF Len(acc.players) = 0
              THEN CsvThrew("No valid player data found in CSV")
            ELSE [threw |-> FALSE, error |-> "",
                  num_players |-> Len(acc.players), players |-> acc.players,
                  ratings |-> acc.ratings, positions |-> acc.positions,
                  position_indices |-> acc.position_indices]

NotParsed == [called |-> FALSE, res |-> CsvThrew("")]

\* no scenario id handed in, and no request handled yet
NoScenario == [given |-> FALSE, id |-> ""]
NoPayload == [num_players |-> 0, ratings |-> <<>>, position_indices |-> <<>>]
NotHandled ==
  [by |-> "none", kind |-> "none", error |-> "", model |-> "",
   payload |-> NoPayload]

\* the page's parseCSV not called yet
NotParsedBundle ==
  [called |-> FALSE, res |-> [players |-> <<>>, data |-> NoPayload]]

\* no team split asked for, and none reported
Absent == [def |-> FALSE, n |-> 0]
Given(n) == [def |-> TRUE, n |-> n]
NoTotals == [total_rating_a |-> Absent, total_rating_b |-> Absent,
             rating_difference |-> Absent]
NoRoster == [players |-> <<>>, assignment |-> <<>>, solution |-> NoTotals]
NoTeams ==
  [by |-> "none", shown |-> FALSE, teamA |-> <<>>, teamB |-> <<>>,
   totalA |-> 0, totalB |-> 0, diff |-> 0]

\* the page before its script has run
NoPage == [loaded |-> FALSE]

-----------------------------------------------------------------------------
(* The session: MiniZincService with its callers and the engine.           *)

MaxInFlight == 2
MaxCalls == 3

Slots == 1..MaxInFlight

\* solver ids a caller may ask for: SolverConfig.solver, plus one id no
\* context knows
SolverIds == {"cbc", "coinbc", "cp-sat", "chuffed", "gecode", "highs"}

\* SOLVERS.local and SOLVERS.wasm
SOLVERS_local == <<"cbc", "coinbc", "cp-sat", "chuffed">>
SOLVERS_wasm == <<"gecode", "chuffed", "cbc">>

Range(seq) == {seq[i] : i \in DOMAIN seq}

\* the capability set of an execution context
CapabilitySet(m) ==
  IF m = "browser" THEN Range(SOLVERS_wasm) ELSE Range(SOLVERS_local)

\* an isSolverAvailable that holds the browser to the local solver list
isSolverAvailableLocalList(m, solver) ==
  IF m = "browser"
    THEN solver \in Range(<<"cbc", "coinbc", "cp-sat", "chuffed">>)
    ELSE TRUE

isSolverAvailable(m, solver) ==
  IF m = "browser"
    THEN solver \in Range(<<"gecode", "chuffed", "cbc">>)
    ELSE TRUE

\* the solver each front-end asks for when the user picks none:
\* DEFAULT_SOLVER, and the option setMode marks `selected` in the solver
\* drop-down of the page ('local' with the server, 'wasm' without)
DEFAULT_SOLVER == "cbc"
SelectedSolver(uiMode) == IF uiMode = "local" THEN "cbc" ELSE "gecode"

\* MINIZINC_AVAILABLE_SOLVERS is the sequence of its comma separated
\* segments, <<>> when the variable is unset; a segment is its text without
\* the surrounding white space (name) and whether it has any (pad)
Seg(pad, name) == [pad |-> pad, name |-> name]

\* envList && envList.trim().length > 0
EnvListGiven(envList) ==
  /\ envList # <<>>
  /\ ~(Len(envList) = 1 /\ envList[1].name = "")

\* envList.split(',').map((s) => s.trim()).filter(Boolean)
RECURSIVE SplitTrimFilter(_)
SplitTrimFilter(envList) ==
  IF envList = <<>> THEN <<>>
  ELSE IF Head(envList).name = "" THEN SplitTrimFilter(Tail(envList))
  ELSE <<Head(envList).name>> \o SplitTrimFilter(Tail(envList))

\* a getAvailableSolvers that knows only the built-in lists
getAvailableSolversBuiltIn(m, e) ==
  IF m = "browser" THEN <<"gecode", "chuffed", "cbc">>
  ELSE <<"cbc", "coinbc", "cp-sat", "chuffed">>

getAvailableSolvers(m, e) ==
  IF m = "browser" THEN <<"gecode", "chuffed", "cbc">>
  ELSE IF EnvListGiven(e.MINIZINC_AVAILABLE_SOLVERS)
    THEN SplitTrimFilter(e.MINIZINC_AVAILABLE_SOLVERS)
  ELSE <<"cbc", "coinbc", "cp-sat", "chuffed">>

NotReported == [called |-> FALSE, solvers |-> <<>>]

\* trySolver: available.includes(solver) ? solver : 'coinbc'
SolverToUse(available, solver) ==
  IF solver \in Range(available) THEN solver ELSE "coinbc"

NoEnv == [MINIZINC_BIN |-> Undef, MINIZINC_AVAILABLE_SOLVERS |-> <<>>]

Environments ==
  { NoEnv,
    [MINIZINC_BIN |-> Str("/opt/homebrew/bin/minizinc"),
     MINIZINC_AVAILABLE_SOLVERS |->
       <<Seg(FALSE, "gecode"), Seg(TRUE, "cbc"), Seg(TRUE, "")>>],
    [MINIZINC_BIN |-> Str(""),
     MINIZINC_AVAILABLE_SOLVERS |-> <<Seg(TRUE, "")>>] }

\* MiniZincInitConfig as init reads it; NoConfig is also a call without one
InitConfig(minizinc, url) ==
  [minizinc |-> minizinc, workerURL |-> url, wasmURL |-> url, dataURL |-> url]
NoConfig == InitConfig(Undef, Undef)
InitConfigs == {NoConfig, InitConfig(Str("/usr/local/bin/minizinc"), Str("./dist/"))}

NoEngineConfig == InitConfig(Undef, Undef)

\* the argument init passes to MiniZinc.init
EngineInitArgs(m, cfg, e) ==
  IF m = "browser"
    THEN [minizinc |-> Undef,
          workerURL |-> Or(cfg.workerURL, Str("./minizinc-worker.js")),
          wasmURL |-> Or(cfg.wasmURL, Str("./minizinc.wasm")),
          dataURL |-> Or(cfg.dataURL, Str("./minizinc.data"))]
    ELSE [minizinc |-> Or(Or(cfg.minizinc, e.MINIZINC_BIN), Str("minizinc")),
          workerURL |-> Undef, wasmURL |-> Undef, dataURL |-> Undef]

\* how the engine may settle a solve in the session model
SettleSample ==
  { [kind |-> "resolved",
     value |-> Obj([output |-> Undef, status |-> Str("OPTIMAL_SOLUTION"),
                    result |-> Undef,
                    solution |-> Obj([output |-> Obj([json |-> Assign10])]),
                    statistics |-> Stats("5"), extra |-> Undef])],
    [kind |-> "resolved", value |-> Null],
    [kind |-> "rejected",
     value |-> ErrObj("Error", Str("MiniZinc exited with code 1"), "default", FALSE)],
    [kind |-> "rejected", value |-> ErrObj("Error", Str(""), "default", FALSE)],
    [kind |-> "rejected", value |-> ErrObj("Object", Undef, "default", TRUE)] }

\* a call in flight: expired says whether the 'time-limit' handed to the
\* engine with the call has elapsed since model.solve
Idle ==
  [op |-> "none", pc |-> "idle", solver |-> "", substituted |-> FALSE,
   viaInit |-> FALSE, expired |-> FALSE]
InFlight(op, pc, solver, substituted, viaInit) ==
  [op |-> op, pc |-> pc, solver |-> solver, substituted |-> substituted,
   viaInit |-> viaInit, expired |-> FALSE]

NoCall ==
  [op |-> "none", solver |-> "", substituted |-> FALSE, engineInit |-> "none",
   submitted |-> FALSE, outcome |-> NoOutcome]
Done(op, solver, substituted, engineInit, submitted, out) ==
  [op |-> op, solver |-> solver, substituted |-> substituted,
   engineInit |-> engineInit, submitted |-> submitted, outcome |-> out]
NoStart == [op |-> "none", solver |-> "", onReady |-> FALSE]

Init ==
  /\ mode \in {"node", "browser"}
  /\ initialized = FALSE
  /\ env \in (IF mode = "node" THEN Environments ELSE {NoEnv})
  /\ engineInits = 0
  /\ engineSolves = 0
  /\ engineReady = FALSE
  /\ engineInitFailures = 0
  /\ engineConfig = NoEngineConfig
  /\ calls = [c \in Slots |-> Idle]
  /\ issued = 0
  /\ completed = 0
  /\ started = NoStart
  /\ last = NoCall
  /\ npc = "idle"
  /\ settled = [kind |-> "none", value |-> Undef]
  /\ outcome = NoOutcome
  /\ renorm = NoOutcome
  /\ reported = NotReported
  /\ csvText = <<>>
  /\ parsedCsv = NotParsed
  /\ scenario = NoScenario
  /\ handled = NotHandled
  /\ bundleParsed = NotParsedBundle
  /\ roster = NoRoster
  /\ teams = NoTeams
  /\ page = NoPage

\* the slot a new call takes
FreeSlot == CHOOSE c \in Slots : calls[c] = Idle /\ \A d \in Slots : calls[d] = Idle => c <= d
CanIssue == issued < MaxCalls /\ \E c \in Slots : calls[c] = Idle

\* the call in slot c returns or throws
Complete(c, rec) ==
  /\ calls' = [calls EXCEPT ![c] = Idle]
  /\ last' = rec
  /\ completed' = completed + 1

\* init up to its await: an init that finds the session initialized returns
\* when skips holds
InitBegin(cfg, skips) ==
  /\ CanIssue
  /\ issued' = issued + 1
  /\ started' = [op |-> "init", solver |-> "", onReady |-> initialized]
  /\ IF skips
       THEN /\ last' = Done("init", "", FALSE, "none", FALSE, Resolved(NoResult))
            /\ completed' = completed + 1
            /\ UNCHANGED <<engineInits, engineConfig, calls>>
       ELSE /\ engineInits' = engineInits + 1
            /\ engineConfig' = EngineInitArgs(mode, cfg, env)
            /\ calls' = [calls EXCEPT ![FreeSlot] =
                           InFlight("init", "awaitInit", "", FALSE, FALSE)]
            /\ UNCHANGED <<last, completed>>
  /\ UNCHANGED <<mode, initialized, env, engineSolves, engineReady,
                 engineInitFailures, pureVars>>

\* an init without the `if (this.initialized) return`
InitCallAlways(cfg) == InitBegin(cfg, FALSE)

\* service.init(config)
InitCall(cfg) == InitBegin(cfg, initialized)

\* the capability check of solve and the submission to the engine, for the
\* call rec placed in slot c
CheckAndSubmit(c, rec) ==
  IF mode = "browser" /\ ~isSolverAvailable(mode, rec.solver)
    THEN /\ Complete(c, Done(rec.op, rec.solver, rec.substituted,
                             IF rec.viaInit THEN "ok" ELSE "none", FALSE,
                             Rejected("UnsupportedSolver")))
         /\ UNCHANGED engineSolves
    ELSE /\ engineSolves' = engineSolves + 1
         /\ calls' = [calls EXCEPT ![c] = [rec EXCEPT !.pc = "awaitSolve"]]
         /\ UNCHANGED <<last, completed>>

\* solve up to its first await
SolveBegin(op, solver, substituted) ==
  /\ CanIssue
  /\ issued' = issued + 1
  /\ started' = [op |-> op, solver |-> solver, onReady |-> initialized]
  /\ IF ~initialized
       THEN /\ engineInits' = engineInits + 1
            /\ engineConfig' = EngineInitArgs(mode, NoConfig, env)
            /\ calls' = [calls EXCEPT ![FreeSlot] =
                           InFlight(op, "awaitInit", solver, substituted, TRUE)]
            /\ UNCHANGED <<engineSolves, last, completed>>
       ELSE /\ CheckAndSubmit(FreeSlot,
                              InFlight(op, "check", solver, substituted, FALSE))
            /\ UNCHANGED <<engineInits, engineConfig>>
  /\ UNCHANGED <<mode, initialized, env, engineReady, engineInitFailures,
                 pureVars>>

\* service.solve(modelCode, data, {solver}) called directly
SolveCall(solver) == SolveBegin("solve", solver, FALSE)

\* runTests.trySolver(solver) of the command line test runner (a Node.js
\* process), after runTests has awaited service.init
TrySolverCall(solver) ==
  /\ mode = "node"
  /\ initialized
  /\ LET solverToUse == SolverToUse(getAvailableSolvers(mode, env), solver) IN
     SolveBegin("trySolver", solverToUse, solverToUse # solver)

\* MiniZinc.init resolves; initAfter is this.initialized afterwards
InitResolved(c, initAfter) ==
  /\ calls[c].pc = "awaitInit"
  /\ engineReady' = TRUE
  /\ initialized' = initAfter
  /\ IF calls[c].op = "init"
       THEN Complete(c, Done("init", "", FALSE, "ok", FALSE, Resolved(NoResult)))
       ELSE /\ calls' = [calls EXCEPT ![c].pc = "check"]
            /\ UNCHANGED <<last, completed>>
  /\ UNCHANGED <<mode, env, engineInits, engineSolves, engineInitFailures,
                 engineConfig, issued, started, pureVars>>

EngineInitResolve(c) == InitResolved(c, TRUE)

\* MiniZinc.init rejects: init throws, and so does a solve awaiting it;
\* initAfter is this.initialized afterwards
InitRejected(c, initAfter) ==
  /\ calls[c].pc = "awaitInit"
  /\ initialized' = initAfter
  /\ engineInitFailures' = engineInitFailures + 1
  /\ Complete(c, Done(calls[c].op, calls[c].solver, calls[c].substituted,
                      "failed", FALSE, Rejected("InitializationError")))
  /\ UNCHANGED <<mode, env, engineInits, engineSolves, engineReady,
                 engineConfig, issued, started, pureVars>>

\* an init that marks the session initialized whether or not the engine came up
EngineInitRejectMarksReady(c) == InitRejected(c, TRUE)

\* a solve that goes on to the engine although its initialization failed
EngineInitRejectSwallowed(c) ==
  IF calls[c].pc = "awaitInit" /\ calls[c].op # "init"
    THEN /\ engineInitFailures' = engineInitFailures + 1
         /\ calls' = [calls EXCEPT ![c].pc = "check"]
         /\ UNCHANGED <<mode, initialized, env, engineInits, engineSolves,
                        engineReady, engineConfig, issued, completed, started,
                        last, pureVars>>
    ELSE InitRejected(c, initialized)

EngineInitReject(c) == InitRejected(c, initialized)

\* solve resumes after `await this.init()`
SolveAfterInit(c) ==
  /\ calls[c].pc = "check"
  /\ CheckAndSubmit(c, calls[c])
  /\ UNCHANGED <<mode, initialized, env, engineInits, engineReady,
                 engineInitFailures, engineConfig, issued, started, pureVars>>

\* `await solve` settles with s and solve returns or throws; initAfter is
\* this.initialized afterwards
SolveSettled(c, s, initAfter) ==
  /\ calls[c].pc = "awaitSolve"
  /\ initialized' = initAfter
  /\ Complete(c, Done(calls[c].op, calls[c].solver, calls[c].substituted,
                      IF calls[c].viaInit THEN "ok" ELSE "none", TRUE,
                      SolveSettle(s)))
  /\ UNCHANGED <<mode, env, engineInits, engineSolves, engineReady,
                 engineInitFailures, engineConfig, issued, started, pureVars>>

\* a solve that drops the session when the engine fails
EngineSolveSettleResets(c, s) ==
  SolveSettled(c, s, IF s.kind = "rejected" THEN FALSE ELSE initialized)

\* a solve that, when the engine fails, submits the model again with coinbc
\* before it reports
EngineSolveSettleRetries(c, s) ==
  IF s.kind = "rejected" /\ calls[c].pc = "awaitSolve"
       /\ calls[c].solver # "coinbc"
    THEN /\ engineSolves' = engineSolves + 1
         /\ calls' = [calls EXCEPT ![c].solver = "coinbc"]
         /\ UNCHANGED <<mode, initialized, env, engineInits, engineReady,
                        engineInitFailures, engineConfig, issued, completed,
                        started, last, pureVars>>
    ELSE SolveSettled(c, s, initialized)

EngineSolveSettle(c, s) == SolveSettled(c, s, initialized)

\* the time limit of the call in slot c elapses while solve is suspended
\* at `await solve`: solve has armed no timer, so nothing in the session runs
TimeLimitElapses(c) ==
  /\ calls[c].pc = "awaitSolve"
  /\ ~calls[c].expired
  /\ calls' = [calls EXCEPT ![c].expired = TRUE]
  /\ UNCHANGED <<mode, initialized, env, engineInits, engineSolves,
                 engineReady, engineInitFailures, engineConfig, issued,
                 completed, started, last, pureVars>>

Next ==
  \/ \E cfg \in InitConfigs : InitCall(cfg)
  \/ \E solver \in SolverIds : SolveCall(solver)
  \/ \E solver \in SolverIds : TrySolverCall(solver)
  \/ \E c \in Slots : EngineInitResolve(c)
  \/ \E c \in Slots : EngineInitReject(c)
  \/ \E c \in Slots : SolveAfterInit(c)
  \/ \E c \in Slots, s \in SettleSample : EngineSolveSettle(c, s)
  \/ \E c \in Slots : TimeLimitElapses(c)

Spec == Init /\ [][Next]_vars

\* The session under the scheduling the JavaScript run time guarantees: a
\* continuation whose promise has settled runs, and time passes.  Whether
\* and when the engine settles a solve is the engine's affair.
SpecLive ==
  /\ Spec
  /\ WF_vars(\E c \in Slots : SolveAfterInit(c))
  /\ WF_vars(\E c \in Slots : TimeLimitElapses(c))

-----------------------------------------------------------------------------
(* The try/catch of solve on its own: `await solve` settles with any of    *)
(* Settlements and solve returns or throws.                                *)

InitNorm ==
  /\ mode = "node"
  /\ initialized = TRUE
  /\ env = NoEnv
  /\ engineInits = 1
  /\ engineSolves = 1
  /\ engineReady = TRUE
  /\ engineInitFailures = 0
  /\ engineConfig = NoEngineConfig
  /\ calls = [c \in Slots |-> Idle]
  /\ issued = 1
  /\ completed = 0
  /\ started = NoStart
  /\ last = NoCall
  /\ npc = "await"
  /\ settled \in Settlements
  /\ outcome = NoOutcome
  /\ renorm = NoOutcome
  /\ reported = NotReported
  /\ csvText = <<>>
  /\ parsedCsv = NotParsed
  /\ scenario = NoScenario
  /\ handled = NotHandled
  /\ bundleParsed = NotParsedBundle
  /\ roster = NoRoster
  /\ teams = NoTeams
  /\ page = NoPage

\* const result = await solve; ... return { status, solution, statistics }
TryExtract ==
  /\ npc = "await"
  /\ settled.kind = "resolved"
  /\ outcome' = SolveSettle(settled)
  /\ npc' = "done"
  /\ UNCHANGED <<sessionVars, settled, renorm, capsVars, csvVars, frontVars,
                 uiVars>>

\* catch (error) { ... return { status: 'ERROR', ... } }
CatchError ==
  /\ npc = "await"
  /\ settled.kind = "rejected"
  /\ outcome' = SolveSettle(settled)
  /\ npc' = "done"
  /\ UNCHANGED <<sessionVars, settled, renorm, capsVars, csvVars, frontVars,
                 uiVars>>

\* a returned SolverResult as the object a caller holds: the properties
\* the extraction reads from it
AsResponse(res) ==
  Obj([status |-> res.status, solution |-> res.solution,
       statistics |-> res.statistics])

\* the extraction of solve applied to a result solve returned earlier
Renormalize ==
  /\ npc = "done"
  /\ outcome.kind = "resolved"
  /\ renorm' = Resolved(ExtractResult(AsResponse(outcome.result)))
  /\ npc' = "again"
  /\ UNCHANGED <<sessionVars, settled, outcome, capsVars, csvVars, frontVars,
                 uiVars>>

NextNorm == TryExtract \/ CatchError \/ Renormalize

SpecNorm == InitNorm /\ [][NextNorm]_vars

-----------------------------------------------------------------------------
(* getAvailableSolvers on its own: a service in either context, in the     *)
(* Node.js context under any setting of MINIZINC_AVAILABLE_SOLVERS.        *)

MaxSegments == 2

SegmentNames == {"", "gecode", "cbc", "cp-sat"}
Segments == {Seg(pad, name) : pad \in BOOLEAN, name \in SegmentNames}

RECURSIVE SegLists(_)
SegLists(n) ==
  IF n = 0 THEN {<<>>}
  ELSE SegLists(n - 1) \cup
       {Append(l, g) : l \in {k \in SegLists(n - 1) : Len(k) = n - 1},
                       g \in Segments}

CapsEnvironments ==
  {[MINIZINC_BIN |-> Undef, MINIZINC_AVAILABLE_SOLVERS |-> l] :
     l \in SegLists(MaxSegments)}

InitCaps ==
  /\ mode \in {"node", "browser"}
  /\ initialized = FALSE
  /\ env \in (IF mode = "node" THEN CapsEnvironments ELSE {NoEnv})
  /\ engineInits = 0
  /\ engineSolves = 0
  /\ engineReady = FALSE
  /\ engineInitFailures = 0
  /\ engineConfig = NoEngineConfig
  /\ calls = [c \in Slots |-> Idle]
  /\ issued = 0
  /\ completed = 0
  /\ started = NoStart
  /\ last = NoCall
  /\ npc = "idle"
  /\ settled = [kind |-> "none", value |-> Undef]
  /\ outcome = NoOutcome
  /\ renorm = NoOutcome
  /\ reported = NotReported
  /\ csvText = <<>>
  /\ parsedCsv = NotParsed
  /\ scenario = NoScenario
  /\ handled = NotHandled
  /\ bundleParsed = NotParsedBundle
  /\ roster = NoRoster
  /\ teams = NoTeams
  /\ page = NoPage

\* service.getAvailableSolvers()
GetAvailableSolversCall ==
  /\ ~reported.called
  /\ reported' = [called |-> TRUE, solvers |-> getAvailableSolvers(mode, env)]
  /\ UNCHANGED <<sessionVars, normVars, csvVars, frontVars,
                 uiVars>>

NextCaps == GetAvailableSolversCall

SpecCaps == InitCaps /\ [][NextCaps]_vars

-----------------------------------------------------------------------------
(* parseCSV on its own: any CSV text made of a header line and up to       *)
(* MaxRows further lines.                                                  *)

\* positionMap[position] || 0 of the page's own parseCSV; an inherited
\* property is truthy and is pushed as it is
Inherited == [t |-> "inherited"]
BundlePositionIndex(position) ==
  CASE position = W_forward -> Num("1")
    [] position = W_midfield -> Num("2")
    [] position = W_defense -> Num("3")
    [] position \in InheritedNames -> Inherited
    [] OTHER -> Num("0")

\* the body of the row loop of the page's parseCSV for lines[i] (i 0-based)
BundleParseRow(acc, lines, i) ==
  LET values == Split(lines[i + 1], ",")
      name == StrTrim(values[1])
      rating == ParseInt(Defined(StrTrim(values[2])))
      position ==
        IF Len(values) >= 3 /\ values[3] # <<>>
          THEN ToLowerCase(StrTrim(values[3])) ELSE W_unknown
  IN IF Len(values) >= 2 /\ ~rating.nan
       THEN [players |-> Append(acc.players,
                                [name |-> name, rating |-> rating.n,
                                 position |-> position]),
             ratings |-> Append(acc.ratings, rating.n),
             positions |-> Append(acc.positions, position),
             position_indices |->
               Append(acc.position_indices, BundlePositionIndex(position))]
       ELSE acc

RECURSIVE BundleParseRows(_, _, _)
BundleParseRows(acc, lines, i) ==
  IF i >= Len(lines) THEN acc
  ELSE BundleParseRows(BundleParseRow(acc, lines, i), lines, i + 1)

\* parseCSV of bundle.js: no check of the header or of the number of players
parseCSVBundle(text) ==
  LET acc == BundleParseRows(NoPlayers, Split(StrTrim(text), "\n"), 1) IN
  [players |-> acc.players,
   data |-> [num_players |-> Len(acc.players), ratings |-> acc.ratings,
             position_indices |-> acc.position_indices]]

MaxRows == 2

HeaderLines ==
  { <<"n", "a", "m", "e", ",", "r", "a", "t", "i", "n", "g", ",", "p", "o", "s", "i", "t", "i", "o", "n">>,
    <<"N", "a", "m", "e", ",", " ", "R", "a", "t", "i", "n", "g">>,
    <<"r", "a", "t", "i", "n", "g", ",", "n", "a", "m", "e">>,
    <<"n", "a", "m", "e", ",", "p", "o", "s", "i", "t", "i", "o", "n">>,
    <<"p", "l", "a", "y", "e", "r", ",", "r", "a", "t", "i", "n", "g">> }

RowLines ==
  { <<"A", "o", "i", "f", "e", ",", "8", ",", "f", "o", "r", "w", "a", "r", "d">>,
    <<" ", "N", "i", "a", "m", "h", " ", ",", " ", "6", " ", ",", " ", "D", "e", "f", "e", "n", "s", "e", " ">>,
    <<"C", "a", "r", "a", ",", "x", ",", "m", "i", "d", "f", "i", "e", "l", "d">>,
    <<"O", "r", "l", "a", ",", "1", "2">>,
    <<>>,
    <<"U", "n", "a", ",", "7", ",", "g", "o", "a", "l", "k", "e", "e", "p", "e", "r">>,
    <<"7">>,
    <<",", "5", ",">>,
    <<"M", "e", "a", "b", "h", ",", "7", ".", "5", ",", "c", "o", "n", "s", "t", "r", "u", "c", "t", "o", "r">>,
    <<"S", "a", "o", "i", "r", "s", "e", ",", "-", "3", ",", "M", "I", "D", "F", "I", "E", "L", "D", "\r">>,
    <<"9", ",", "R", "o", "i", "s", "i", "n">> }

RECURSIVE RowLists(_)
RowLists(n) ==
  IF n = 0 THEN {<<>>}
  ELSE RowLists(n - 1) \cup
       {Append(l, r) : l \in {k \in RowLists(n - 1) : Len(k) = n - 1},
                       r \in RowLines}

\* the lines joined by line feeds
RECURSIVE JoinLines(_)
JoinLines(ls) ==
  IF ls = <<>> THEN <<>>
  ELSE IF Len(ls) = 1 THEN ls[1]
  ELSE ls[1] \o <<"\n">> \o JoinLines(Tail(ls))

CsvTexts ==
  {<<>>} \cup
  {JoinLines(<<h>> \o rs) : h \in HeaderLines, rs \in RowLists(MaxRows)}

InitCsv ==
  /\ mode = "node"
  /\ initialized = FALSE
  /\ env = NoEnv
  /\ engineInits = 0
  /\ engineSolves = 0
  /\ engineReady = FALSE
  /\ engineInitFailures = 0
  /\ engineConfig = NoEngineConfig
  /\ calls = [c \in Slots |-> Idle]
  /\ issued = 0
  /\ completed = 0
  /\ started = NoStart
  /\ last = NoCall
  /\ npc = "idle"
  /\ settled = [kind |-> "none", value |-> Undef]
  /\ outcome = NoOutcome
  /\ renorm = NoOutcome
  /\ reported = NotReported
  /\ csvText \in CsvTexts
  /\ parsedCsv = NotParsed
  /\ scenario = NoScenario
  /\ handled = NotHandled
  /\ bundleParsed = NotParsedBundle
  /\ roster = NoRoster
  /\ teams = NoTeams
  /\ page = NoPage

\* parseCSV(csvText)
ParseCSVCall ==
  /\ ~parsedCsv.called
  /\ parsedCsv' = [called |-> TRUE, res |-> parseCSV(csvText)]
  /\ UNCHANGED <<sessionVars, normVars, capsVars, csvText, frontVars,
                 uiVars>>

\* parseCSV(csvText) of the page
BundleParseCSVCall ==
  /\ ~bundleParsed.called
  /\ bundleParsed' = [called |-> TRUE, res |-> parseCSVBundle(csvText)]
  /\ UNCHANGED <<sessionVars, normVars, capsVars, csvVars, frontVars,
                 roster, teams, page>>

NextCsv == ParseCSVCall \/ BundleParseCSVCall

SpecCsv == InitCsv /\ [][NextCsv]_vars

-----------------------------------------------------------------------------
(* The front-ends: what the HTTP server, the command line and the page in  *)
(* WASM mode do with a CSV text and a scenario id before the engine runs.  *)

\* SCENARIOS: the model file of each scenario id
SCENARIOS ==
  [ratings_only |-> "team_assignment_ratings_only.mzn",
   with_positions |-> "team_assignment_with_positions.mzn",
   balanced_positions |-> "team_assignment_balanced_positions.mzn"]

DEFAULT_SCENARIO == "ratings_only"

\* property names every object inherits from Object.prototype
ObjectPrototypeNames ==
  {"constructor", "__proto__", "toString", "valueOf", "hasOwnProperty"}

\* whether SCENARIOS[id] is truthy: an own key or an inherited property
ScenarioTruthy(id) == id \in DOMAIN SCENARIOS \/ id \in ObjectPrototypeNames

\* SCENARIOS[id].modelFile as it appears in `./models/${...}`
ModelFileOf(id) == IF id \in DOMAIN SCENARIOS THEN SCENARIOS[id] ELSE "undefined"

\* the files in ./models
ModelFileExists(file) == \E id \in DOMAIN SCENARIOS : SCENARIOS[id] = file

\* the model text solveWithWasm picks
WasmModelOf(id) ==
  CASE id = "with_positions" -> "WITH_POSITIONS_MODEL"
    [] id = "balanced_positions" -> "BALANCED_POSITIONS_MODEL"
    [] OTHER -> "RATINGS_ONLY_MODEL"

ScenarioInputs ==
  {NoScenario} \cup
  {[given |-> TRUE, id |-> id] :
     id \in {"ratings_only", "with_positions", "balanced_positions",
             "knockout", "constructor", ""}}

Reported(by, msg) ==
  [by |-> by, kind |-> "error", error |-> msg, model |-> "",
   payload |-> NoPayload]
Submitted(by, model, data) ==
  [by |-> by, kind |-> "submitted", error |-> "", model |-> model,
   payload |-> [num_players |-> data.num_players, ratings |-> data.ratings,
                position_indices |-> data.position_indices]]

FrontCsvTexts ==
  { <<>>,
    <<"n", "a", "m", "e", ",", "r", "a", "t", "i", "n", "g">>,
    JoinLines(<<<<"n", "a", "m", "e", ",", "r", "a", "t", "i", "n", "g", ",", "p", "o", "s", "i", "t", "i", "o", "n">>, <<"A", "o", "i", "f", "e", ",", "8", ",", "f", "o", "r", "w", "a", "r", "d">>>>),
    JoinLines(<<<<"n", "a", "m", "e", ",", "p", "o", "s", "i", "t", "i", "o", "n">>, <<"A", "o", "i", "f", "e", ",", "8", ",", "f", "o", "r", "w", "a", "r", "d">>>>),
    JoinLines(<<<<"n", "a", "m", "e", ",", "r", "a", "t", "i", "n", "g", ",", "p", "o", "s", "i", "t", "i", "o", "n">>, <<"C", "a", "r", "a", ",", "x", ",", "m", "i", "d", "f", "i", "e", "l", "d">>>>),
    JoinLines(<<<<"n", "a", "m", "e", ",", "r", "a", "t", "i", "n", "g", ",", "p", "o", "s", "i", "t", "i", "o", "n">>, <<"A", "o", "i", "f", "e", ",", "8", ",", "f", "o", "r", "w", "a", "r", "d">>,
                <<"U", "n", "a", ",", "7", ",", "g", "o", "a", "l", "k", "e", "e", "p", "e", "r">>>>) }

InitFront ==
  /\ mode = "node"
  /\ initialized = FALSE
  /\ env = NoEnv
  /\ engineInits = 0
  /\ engineSolves = 0
  /\ engineReady = FALSE
  /\ engineInitFailures = 0
  /\ engineConfig = NoEngineConfig
  /\ calls = [c \in Slots |-> Idle]
  /\ issued = 0
  /\ completed = 0
  /\ started = NoStart
  /\ last = NoCall
  /\ npc = "idle"
  /\ settled = [kind |-> "none", value |-> Undef]
  /\ outcome = NoOutcome
  /\ renorm = NoOutcome
  /\ reported = NotReported
  /\ csvText \in FrontCsvTexts
  /\ parsedCsv = NotParsed
  /\ scenario \in ScenarioInputs
  /\ handled = NotHandled
  /\ bundleParsed = NotParsedBundle
  /\ roster = NoRoster
  /\ teams = NoTeams
  /\ page = NoPage

\* POST /api/solve with body {csvData, scenario}, up to the call of
\* service.solve (the engine initializes and the three model files exist)
ServerSolve ==
  /\ handled.by = "none"
  /\ handled' =
       IF csvText = <<>> THEN Reported("server", "CSV data is required")
       ELSE LET id == IF scenario.given THEN scenario.id ELSE DEFAULT_SCENARIO IN
         IF ~ScenarioTruthy(id) THEN Reported("server", "Unknown scenario")
         ELSE IF ~ModelFileExists(ModelFileOf(id))
           THEN Reported("server", "ENOENT: no such file or directory")
         ELSE LET data == parseCSV(csvText) IN
           IF data.threw THEN Reported("server", data.error)
           ELSE Submitted("server", ModelFileOf(id), data)
  /\ UNCHANGED <<sessionVars, normVars, capsVars, csvVars, scenario,
                 uiVars>>

\* main of the command line with --scenario and --file, up to the call of
\* service.solve in runSolve
CliMain ==
  /\ handled.by = "none"
  /\ handled' =
       LET id == IF scenario.given /\ scenario.id # ""
                   THEN scenario.id ELSE DEFAULT_SCENARIO IN
       IF ~ScenarioTruthy(id) THEN Reported("cli", "Unknown scenario")
       ELSE IF ~ModelFileExists(ModelFileOf(id))
         THEN Reported("cli", "Model file not found")
       ELSE LET data == parseCSV(csvText) IN
         IF data.threw THEN Reported("cli", data.error)
         ELSE Submitted("cli", ModelFileOf(id), data)
  /\ UNCHANGED <<sessionVars, normVars, capsVars, csvVars, scenario,
                 uiVars>>

\* the click on the solve button in WASM mode, up to model.solve in
\* solveWithWasm (MiniZinc WASM is initialized)
WasmSolveClick ==
  /\ handled.by = "none"
  /\ handled' =
       IF csvText = <<>>
         THEN Reported("wasm", "Please select a CSV file first")
       ELSE LET id == IF scenario.given /\ scenario.id # ""
                        THEN scenario.id ELSE "ratings_only" IN
         Submitted("wasm", WasmModelOf(id), parseCSVBundle(csvText).data)
  /\ UNCHANGED <<sessionVars, normVars, capsVars, csvVars, scenario,
                 uiVars>>

NextFront == ServerSolve \/ CliMain \/ WasmSolveClick

SpecFront == InitFront /\ [][NextFront]_vars
-----------------------------------------------------------------------------
(* The team split and the totals the command line and the page report for  *)
(* it.  A number that may be undefined is [def, n].                        *)

MaxPlayers == 3

\* assignment.forEach((team, idx) => ...) of splitIntoTeams from index idx
\* (0-based) on
RECURSIVE SplitFrom(_, _, _, _)
SplitFrom(players, assignment, idx, acc) ==
  IF idx >= Len(assignment) THEN acc
  ELSE SplitFrom(players, assignment, idx + 1,
         IF idx < Len(players)
           THEN IF assignment[idx + 1] = 0
                  THEN [acc EXCEPT !.teamA = Append(@, players[idx + 1])]
                  ELSE [acc EXCEPT !.teamB = Append(@, players[idx + 1])]
           ELSE acc)

\* a split that takes team 1 for Team A
splitIntoTeamsOneIsA(players, assignment) ==
  SplitFrom(players,
            [i \in DOMAIN assignment |-> IF assignment[i] = 1 THEN 0 ELSE 1],
            0, [teamA |-> <<>>, teamB |-> <<>>])

splitIntoTeams(players, assignment) ==
  SplitFrom(players, assignment, 0, [teamA |-> <<>>, teamB |-> <<>>])

\* players.reduce((sum, p) => sum + p.rating, 0)
RECURSIVE calculateTotalRating(_)
calculateTotalRating(players) ==
  IF players = <<>> THEN 0
  ELSE Head(players).rating + calculateTotalRating(Tail(players))

Abs(n) == IF n < 0 THEN -n ELSE n

\* x ?? d and x || d for a number x that may be undefined
NumCoalesce(x, d) == IF x.def THEN x.n ELSE d
NumOr(x, d) == IF x.def /\ x.n # 0 THEN x.n ELSE d

RosterPlayers(n) ==
  {[i \in 1..n |-> [name |-> i, rating |-> rs[i]]] : rs \in [1..n -> {3, 5}]}
AssignmentsOf(n) == [1..n -> {0, 1, 2}]
TotalsChoices ==
  { NoTotals,
    [total_rating_a |-> Given(0), total_rating_b |-> Given(9),
     rating_difference |-> Absent],
    [total_rating_a |-> Given(8), total_rating_b |-> Given(5),
     rating_difference |-> Given(3)],
    [total_rating_a |-> Absent, total_rating_b |-> Absent,
     rating_difference |-> Given(0)] }

InitTeams ==
  /\ mode = "node"
  /\ initialized = FALSE
  /\ env = NoEnv
  /\ engineInits = 0
  /\ engineSolves = 0
  /\ engineReady = FALSE
  /\ engineInitFailures = 0
  /\ engineConfig = NoEngineConfig
  /\ calls = [c \in Slots |-> Idle]
  /\ issued = 0
  /\ completed = 0
  /\ started = NoStart
  /\ last = NoCall
  /\ npc = "idle"
  /\ settled = [kind |-> "none", value |-> Undef]
  /\ outcome = NoOutcome
  /\ renorm = NoOutcome
  /\ reported = NotReported
  /\ csvText = <<>>
  /\ parsedCsv = NotParsed
  /\ scenario = NoScenario
  /\ handled = NotHandled
  /\ bundleParsed = NotParsedBundle
  /\ \E n \in 0..MaxPlayers, m \in 0..MaxPlayers :
       \E ps \in RosterPlayers(n), a \in AssignmentsOf(m), t \in TotalsChoices :
         roster = [players |-> ps, assignment |-> a, solution |-> t]
  /\ teams = NoTeams
  /\ page = NoPage

\* runSolve of the command line once solve returned a solution: the split
\* and the totals it prints
CliReportTeams ==
  /\ teams.by = "none"
  /\ teams' =
       IF Len(roster.assignment) > 0
         THEN LET split == splitIntoTeams(roster.players, roster.assignment)
                  totalA == NumCoalesce(roster.solution.total_rating_a,
                                        calculateTotalRating(split.teamA))
                  totalB == NumCoalesce(roster.solution.total_rating_b,
                                        calculateTotalRating(split.teamB))
              IN [by |-> "cli", shown |-> TRUE, teamA |-> split.teamA,
                  teamB |-> split.teamB, totalA |-> totalA, totalB |-> totalB,
                  diff |-> Abs(totalA - totalB)]
         ELSE [NoTeams EXCEPT !.by = "cli"]
  /\ UNCHANGED <<sessionVars, normVars, capsVars, csvVars, frontVars,
                 bundleParsed, roster, page>>

\* the split of the players by the server or by the click handler, and
\* displayResults of the page for it
PageDisplayResults ==
  /\ teams.by = "none"
  /\ teams' =
       LET split == splitIntoTeams(roster.players, roster.assignment)
           totalA == NumOr(roster.solution.total_rating_a,
                           calculateTotalRating(split.teamA))
           totalB == NumOr(roster.solution.total_rating_b,
                           calculateTotalRating(split.teamB))
       IN [by |-> "page", shown |-> TRUE, teamA |-> split.teamA,
           teamB |-> split.teamB, totalA |-> totalA, totalB |-> totalB,
           diff |-> NumOr(roster.solution.rating_difference,
                          Abs(totalA - totalB))]
  /\ UNCHANGED <<sessionVars, normVars, capsVars, csvVars, frontVars,
                 bundleParsed, roster, page>>

NextTeams == CliReportTeams \/ PageDisplayResults

SpecTeams == InitTeams /\ [][NextTeams]_vars

-----------------------------------------------------------------------------
(* The page in the browser: mode detection, file selection and the solve   *)
(* button, with the server behind /api/solve in local mode.                *)

MaxClicks == 3
MaxFiles == 2

\* a SolverResult as far as the front-ends read and write it
NullSolution == [t |-> "null"]
Solution(assignment, forwards_a, rating_weight) ==
  [t |-> "obj", assignment |-> assignment, forwards_a |-> forwards_a,
   position_diff |-> Absent, rating_weight |-> rating_weight]
Result(status, solution) == [status |-> status, solution |-> solution]
NoResultHeld == Result("", NullSolution)

\* what service.solve may return in the server
ServiceResults ==
  { Result("OPTIMAL", Solution("teams", Absent, Absent)),
    Result("OPTIMAL", Solution("teams", Given(1), Absent)),
    Result("UNSATISFIABLE", NullSolution),
    Result("ERROR", NullSolution) }

\* how the fetch of /api/solve may settle: a response built by the server
\* from a result of service.solve, an error response, or no response
FetchReplies ==
  {[kind |-> "ok", result |-> r] : r \in ServiceResults} \cup
  {[kind |-> k, result |-> NoResultHeld] : k \in {"httpError", "failed"}}

\* how the call of solveWithWasm may settle: the result it builds from the
\* engine's reply (rating_weight is json.RATING_WEIGHT || 10), or a throw
WasmReplies ==
  { [kind |-> "ok", result |-> Result("OPTIMAL_SOLUTION", Solution("teams", Absent, Given(10)))],
    [kind |-> "ok", result |-> Result("OPTIMAL_SOLUTION", Solution("teams", Given(1), Given(10)))],
    [kind |-> "ok", result |-> Result("SATISFIED", Solution("empty", Absent, Given(10)))],
    [kind |-> "ok", result |-> Result("UNSATISFIABLE", NullSolution)],
    [kind |-> "ok", result |-> Result("UNKNOWN", NullSolution)],
    [kind |-> "thrown", result |-> NoResultHeld] }

InitPage ==
  /\ mode = "browser"
  /\ initialized = FALSE
  /\ env = NoEnv
  /\ engineInits = 0
  /\ engineSolves = 0
  /\ engineReady = FALSE
  /\ engineInitFailures = 0
  /\ engineConfig = NoEngineConfig
  /\ calls = [c \in Slots |-> Idle]
  /\ issued = 0
  /\ completed = 0
  /\ started = NoStart
  /\ last = NoCall
  /\ npc = "idle"
  /\ settled = [kind |-> "none", value |-> Undef]
  /\ outcome = NoOutcome
  /\ renorm = NoOutcome
  /\ reported = NotReported
  /\ csvText = <<>>
  /\ parsedCsv = NotParsed
  /\ scenario = NoScenario
  /\ handled = NotHandled
  /\ bundleParsed = NotParsedBundle
  /\ roster = NoRoster
  /\ teams = NoTeams
  /\ \E up \in BOOLEAN, disabled \in BOOLEAN,
        sc \in {"ratings_only", "with_positions"} :
       page = [loaded |-> TRUE,
               serverUp |-> up,            \* whether /api/scenarios answers
               scenario |-> sc,            \* scenarioSelect.value
               currentMode |-> "local",
               detect |-> "pending",       \* detectMode: pending, wasmInit, done
               wasmInitialized |-> FALSE,
               csvLoaded |-> FALSE,        \* csvData is not null
               reading |-> 0,              \* FileReader reads in progress
               btnDisabled |-> disabled,   \* solveBtn.disabled
               loadingActive |-> FALSE,
               resultsActive |-> FALSE,
               shows |-> "nothing",        \* content of the results panel
               localInFlight |-> 0,        \* handlers awaiting fetch
               wasmInFlight |-> 0,         \* handlers awaiting solveWithWasm
               usedModes |-> {},           \* values of currentMode solves went by
               clicks |-> 0, files |-> 0, finished |-> 0,
               returned |-> NoResultHeld,  \* the result solve returned last
               held |-> NoResultHeld]      \* that object as it is now

PageUnchanged ==
  UNCHANGED <<sessionVars, normVars, capsVars, csvVars, frontVars,
              bundleParsed, roster, teams>>

\* a file is chosen or dropped: handleFile starts reading it
FileChosen ==
  /\ page.loaded
  /\ page.files < MaxFiles
  /\ page' = [page EXCEPT !.files = @ + 1, !.reading = @ + 1]
  /\ PageUnchanged

\* reader.onload
ReaderLoads ==
  /\ page.loaded
  /\ page.reading > 0
  /\ page' = [page EXCEPT !.reading = @ - 1, !.csvLoaded = TRUE,
                          !.btnDisabled = FALSE]
  /\ PageUnchanged

\* the fetch of detectMode settles: setMode('local'), or initWasmMode up to
\* its first await
DetectSettles ==
  /\ page.loaded
  /\ page.detect = "pending"
  /\ page' = IF page.serverUp
               THEN [page EXCEPT !.currentMode = "local", !.detect = "done"]
               ELSE [page EXCEPT !.currentMode = "wasm", !.detect = "wasmInit"]
  /\ PageUnchanged

\* the import and MiniZinc.init of initWasmMode settle
WasmInitSettles(ok) ==
  /\ page.loaded
  /\ page.detect = "wasmInit"
  /\ page' = [page EXCEPT !.wasmInitialized = ok, !.detect = "done"]
  /\ PageUnchanged

\* what the catch and finally blocks of the click handler leave
Failed(pg) ==
  [pg EXCEPT !.shows = "error", !.resultsActive = TRUE,
             !.loadingActive = FALSE, !.btnDisabled = FALSE,
             !.finished = @ + 1]

\* what a handler that ends without displaying leaves
Ended(pg) ==
  [pg EXCEPT !.loadingActive = FALSE, !.btnDisabled = FALSE,
             !.finished = @ + 1]

\* what displayResults and the finally block leave
Displayed(pg) ==
  [pg EXCEPT !.shows = "teams", !.resultsActive = TRUE,
             !.loadingActive = FALSE, !.btnDisabled = FALSE,
             !.finished = @ + 1]

\* a click on the enabled solve button, up to the handler's first await
SolveClick ==
  /\ page.loaded
  /\ ~page.btnDisabled
  /\ page.clicks < MaxClicks
  /\ page' =
       IF ~page.csvLoaded THEN [page EXCEPT !.clicks = @ + 1]
       ELSE LET begun == [page EXCEPT !.clicks = @ + 1,
                                      !.loadingActive = TRUE,
                                      !.resultsActive = FALSE,
                                      !.btnDisabled = TRUE,
                                      !.usedModes = @ \cup {page.currentMode}]
            IN IF page.currentMode = "local"
                 THEN [begun EXCEPT !.localInFlight = @ + 1]
               ELSE IF ~page.wasmInitialized THEN Failed(begun)
               ELSE [begun EXCEPT !.wasmInFlight = @ + 1]
  /\ PageUnchanged

\* POST /api/solve after service.solve returned result: the position
\* counts it writes into result.solution
ServerEnhance(result, sc, n) ==
  IF result.solution.t = "obj" /\ sc = "with_positions"
       /\ ~result.solution.forwards_a.def
    THEN [result EXCEPT !.solution.forwards_a = Given(n)]
    ELSE result

\* the fetch of /api/solve settles and the handler runs to its end
FetchSettles(reply, n) ==
  /\ page.loaded
  /\ page.localInFlight > 0
  /\ LET pg == [page EXCEPT !.localInFlight = @ - 1] IN
     page' =
       IF reply.kind = "ok"
         THEN [Displayed(pg) EXCEPT
                 !.returned = reply.result,
                 !.held = ServerEnhance(reply.result, page.scenario, n)]
         ELSE Failed(pg)
  /\ PageUnchanged

\* the WASM branch of the handler after solveWithWasm returned result: the
\* position counts and the rating weight it writes into result.solution
WasmEnhance(result, n, d) ==
  LET counted ==
        IF result.solution.forwards_a.def THEN result
        ELSE [result EXCEPT !.solution.forwards_a = Given(n),
                            !.solution.position_diff = Given(d)]
  IN IF counted.solution.rating_weight.def THEN counted
     ELSE [counted EXCEPT !.solution.rating_weight = Given(10)]

\* solveWithWasm settles and the handler runs to its end
WasmSolveSettles(reply, n, d) ==
  /\ page.loaded
  /\ page.wasmInFlight > 0
  /\ LET pg == [page EXCEPT !.wasmInFlight = @ - 1] IN
     page' =
       IF reply.kind = "thrown" THEN Failed(pg)
       ELSE IF reply.result.solution.t = "obj"
              /\ reply.result.solution.assignment # "none"
         THEN [Displayed(pg) EXCEPT
                 !.returned = reply.result,
                 !.held = WasmEnhance(reply.result, n, d)]
       ELSE [Ended(pg) EXCEPT !.returned = reply.result,
                              !.held = reply.result]
  /\ PageUnchanged

NextPage ==
  \/ FileChosen
  \/ ReaderLoads
  \/ DetectSettles
  \/ \E ok \in BOOLEAN : WasmInitSettles(ok)
  \/ SolveClick
  \/ \E reply \in FetchReplies, n \in 0..1 : FetchSettles(reply, n)
  \/ \E reply \in WasmReplies, n \in 0..1, d \in 0..1 :
       WasmSolveSettles(reply, n, d)

SpecPage == InitPage /\ [][NextPage]_vars

-----------------------------------------------------------------------------
(* Properties of the session, checked under Spec.                          *)

SolveOps == {"solve", "trySolver"}
CallIssued(ops) == issued' = issued + 1 /\ started'.op \in ops
CallCompleted(ops) == completed' = completed + 1 /\ last'.op \in ops

\* C1 (as claimed): in each context a solve for a solver outside that
\* context's capability set fails with the unsupported-solver error without
\* reaching the engine, and no caller replaces the requested solver.
C1_UnsupportedSolverRejected ==
  /\ \A c \in Slots :
       calls[c].pc = "awaitSolve" =>
         calls[c].solver \in CapabilitySet(mode) /\ ~calls[c].substituted
  /\ (last.op \in SolveOps /\ last.engineInit # "failed"
        /\ last.solver \notin CapabilitySet(mode)) =>
       /\ last.outcome = Rejected("UnsupportedSolver")
       /\ ~last.submitted
  /\ ~last.substituted

\* C3: a solve that completes on an initialized session leaves it
\* initialized, and a solve called on an initialized session starts no
\* engine initialization and is submitted to the engine at once (or, in the
\* browser, rejected by the capability check).
C3_SolveKeepsSessionReady ==
  [][ /\ (initialized /\ CallCompleted(SolveOps)) => initialized'
      /\ (initialized /\ CallIssued(SolveOps)) =>
           /\ initialized'
           /\ engineInits' = engineInits
           /\ \/ engineSolves' = engineSolves + 1
              \/ /\ mode = "browser"
                 /\ started'.solver \notin CapabilitySet(mode)
                 /\ CallCompleted(SolveOps)
                 /\ last'.outcome = Rejected("UnsupportedSolver")
                 /\ engineSolves' = engineSolves ]_vars

\* C3 witness: a solve returned status ERROR, and a solve called on the
\* initialized session is with the engine, after one engine initialization
C3_Witness ==
  /\ initialized
  /\ engineInits = 1
  /\ last.op = "solve"
  /\ last.outcome.kind = "resolved"
  /\ last.outcome.result.status = Str("ERROR")
  /\ started.op = "solve" /\ started.onReady
  /\ \E c \in Slots : calls[c].pc = "awaitSolve" /\ ~calls[c].viaInit

\* C4: the session is initialized only if an engine initialization has
\* resolved; a call whose engine initialization failed throws and leaves
\* `initialized` as it was; and init on an uninitialized session invokes the
\* engine initialization again.
C4_FailedInitLeavesUninitialized ==
  /\ [](initialized => engineReady)
  /\ [][ /\ engineInitFailures' # engineInitFailures =>
              /\ completed' = completed + 1
              /\ last'.engineInit = "failed"
              /\ last'.outcome = Rejected("InitializationError")
              /\ initialized' = initialized
         /\ (~initialized /\ CallIssued({"init"})) =>
              /\ engineInits' = engineInits + 1
              /\ \E cfg \in InitConfigs :
                   engineConfig' = EngineInitArgs(mode, cfg, env) ]_vars

\* C4 witness: after a failed engine initialization an init with another
\* executable path has succeeded
C4_Witness ==
  /\ mode = "node"
  /\ engineInitFailures = 1
  /\ engineInits = 2
  /\ issued = 2 /\ completed = 2
  /\ initialized
  /\ last.op = "init" /\ last.engineInit = "ok"
  /\ last.outcome.kind = "resolved"
  /\ engineConfig.minizinc = Str("/usr/local/bin/minizinc")

\* C5: an init called on an initialized session returns at once: no engine
\* initialization, no change of the session, whatever the configuration.
C5_InitIdempotent ==
  [][ (initialized /\ CallIssued({"init"})) =>
        /\ CallCompleted({"init"})
        /\ last'.outcome.kind = "resolved"
        /\ UNCHANGED <<mode, initialized, engineInits, engineSolves,
                       engineReady, engineInitFailures, engineConfig,
                       calls>> ]_vars

\* C5 witness: an init on an initialized session has returned after a
\* single engine initialization
C5_Witness ==
  /\ initialized
  /\ engineInits = 1
  /\ started.op = "init" /\ started.onReady
  /\ last.op = "init" /\ last.engineInit = "none"
  /\ last.outcome.kind = "resolved"

-----------------------------------------------------------------------------
(* Properties of the try/catch of solve, checked under SpecNorm.           *)

Extracted == npc \in {"done", "again"} /\ settled.kind = "resolved"
Caught == npc \in {"done", "again"} /\ settled.kind = "rejected"

FiveStatuses ==
  {Str("OPTIMAL"), Str("SATISFIED"), Str("UNSATISFIABLE"), Str("UNKNOWN"),
   Str("ERROR")}

\* the places of a raw response r the status and the solution are read from
ParsedStatus(r) == Opt(Parsed(r), "status")
DirectStatus(r) == Opt(r, "status")
ResultStatus(r) == Opt(Opt(r, "result"), "status")
NestedStatus(r) == Opt(Opt(r, "solution"), "status")
ParsedSolution(r) == Opt(Parsed(r), "solution")
NestedJson(r) == Opt(Opt(Opt(r, "solution"), "output"), "json")
NestedSolution(r) == Opt(Opt(r, "solution"), "solution")
TopSolution(r) == Opt(r, "solution")
TopResult(r) == Opt(r, "result")

Present(x) == x.t # "undefined"

\* whether the output text of r exists and is valid JSON
OutputIsText(r) == RawOutput(r).t = "str"
OutputParses(r) ==
  OutputIsText(r) /\ JSONParse(Trim(Lex(RawOutput(r).v))).ok

\* C2 (as claimed): whatever the engine throws, solve resolves to a result
\* with status ERROR, solution null and a non-empty string errorMessage.
C2_ThrowBecomesErrorResult ==
  Caught =>
    /\ outcome.kind = "resolved"
    /\ outcome.result.status = Str("ERROR")
    /\ outcome.result.solution = Null
    /\ outcome.result.errorMessage.t = "str"
    /\ outcome.result.errorMessage.v # ""

\* C6: extraction never throws, and a response in which the code finds no
\* status source, no solution source and no parsed JSON block yields status
\* UNKNOWN and solution null.
C6_NothingRecognized(r) ==
  /\ ~Truthy(DirectStatus(r)) /\ ~Truthy(TopResult(r))
  /\ ~Truthy(TopSolution(r))
  /\ \/ ~OutputIsText(r)
     \/ ~OutputParses(r)
     \/ ~Truthy(JSONParse(Trim(Lex(RawOutput(r).v))).val)

C6_NormalizationTotal ==
  Extracted =>
    /\ outcome.kind = "resolved"
    /\ C6_NothingRecognized(settled.value) =>
         /\ outcome.result.status = Str("UNKNOWN")
         /\ outcome.result.solution = Null

\* C6 witness: an output text that is not valid JSON, nothing else
C6_Witness ==
  /\ Extracted
  /\ settled.value.t = "obj"
  /\ OutputIsText(settled.value) /\ ~OutputParses(settled.value)
  /\ C6_NothingRecognized(settled.value)
  /\ outcome.result.status = Str("UNKNOWN")

\* C7 (as claimed): the status of every returned result is one of OPTIMAL,
\* SATISFIED, UNSATISFIABLE, UNKNOWN, ERROR.
C7_StatusVocabulary ==
  (npc \in {"done", "again"} /\ outcome.kind = "resolved") =>
    outcome.result.status \in FiveStatuses

\* C8 (as claimed): the status is the first present of parsed-JSON status,
\* direct status, nested solution status, then OPTIMAL if a JSON block was
\* parsed, else UNKNOWN.
C8_StatusOrderAsClaimed ==
  Extracted =>
    LET r == settled.value IN
    outcome.result.status =
      IF Present(ParsedStatus(r)) THEN ParsedStatus(r)
      ELSE IF Present(DirectStatus(r)) THEN DirectStatus(r)
      ELSE IF Present(NestedStatus(r)) THEN NestedStatus(r)
      ELSE IF OutputParses(r) THEN Str("OPTIMAL")
      ELSE Str("UNKNOWN")

\* C8 (amended): the status is the first truthy of parsed-JSON status,
\* direct status, result.status, nested solution status, then OPTIMAL if the
\* parsed JSON value is truthy, else UNKNOWN.
C8_StatusOrder ==
  Extracted =>
    LET r == settled.value IN
    outcome.result.status =
      IF Truthy(ParsedStatus(r)) THEN ParsedStatus(r)
      ELSE IF Truthy(DirectStatus(r)) THEN DirectStatus(r)
      ELSE IF Truthy(ResultStatus(r)) THEN ResultStatus(r)
      ELSE IF Truthy(NestedStatus(r)) THEN NestedStatus(r)
      ELSE IF Truthy(Parsed(r)) THEN Str("OPTIMAL")
      ELSE Str("UNKNOWN")

\* C8 witness: no parsed or direct status, result.status wins over the
\* nested solution status
C8_Witness ==
  /\ Extracted
  /\ ~Truthy(ParsedStatus(settled.value))
  /\ ~Truthy(DirectStatus(settled.value))
  /\ Truthy(ResultStatus(settled.value))
  /\ Truthy(NestedStatus(settled.value))
  /\ ResultStatus(settled.value) # NestedStatus(settled.value)
  /\ outcome.result.status = ResultStatus(settled.value)

\* C9 (as claimed): the solution is the first present of parsed-JSON
\* solution, solution.output.json, solution.solution, top-level solution,
\* else null.
C9_SolutionOrderAsClaimed ==
  Extracted =>
    LET r == settled.value IN
    outcome.result.solution =
      IF Present(ParsedSolution(r)) THEN ParsedSolution(r)
      ELSE IF Present(NestedJson(r)) THEN NestedJson(r)
      ELSE IF Present(NestedSolution(r)) THEN NestedSolution(r)
      ELSE IF Present(TopSolution(r)) THEN TopSolution(r)
      ELSE Null

\* C9 (amended): the solution is the first truthy of parsed-JSON solution,
\* solution.output.json, solution.solution, top-level solution, top-level
\* result, else null.
C9_SolutionOrder ==
  Extracted =>
    LET r == settled.value IN
    outcome.result.solution =
      IF Truthy(ParsedSolution(r)) THEN ParsedSolution(r)
      ELSE IF Truthy(NestedJson(r)) THEN NestedJson(r)
      ELSE IF Truthy(NestedSolution(r)) THEN NestedSolution(r)
      ELSE IF Truthy(TopSolution(r)) THEN TopSolution(r)
      ELSE IF Truthy(TopResult(r)) THEN TopResult(r)
      ELSE Null

\* C9 witness: solution.output.json wins over solution.solution
C9_Witness ==
  /\ Extracted
  /\ ~Truthy(ParsedSolution(settled.value))
  /\ Truthy(NestedJson(settled.value))
  /\ Truthy(NestedSolution(settled.value))
  /\ NestedJson(settled.value) # NestedSolution(settled.value)
  /\ outcome.result.solution = NestedJson(settled.value)

C10_NoStatusPresent(r) ==
  /\ ~Present(ParsedStatus(r)) /\ ~Present(DirectStatus(r))
  /\ ~Present(ResultStatus(r)) /\ ~Present(NestedStatus(r))

\* when parsing fails, solve still returns, and status, solution and
\* statistics are what the structured fields alone give
C10_FailureSwallowed ==
  Extracted =>
    LET r == settled.value IN
    (OutputIsText(r) /\ ~OutputParses(r)) =>
      /\ outcome.kind = "resolved"
      /\ outcome.result.status =
           Or(Or(Or(DirectStatus(r), ResultStatus(r)), NestedStatus(r)),
              Str("UNKNOWN"))
      /\ outcome.result.solution =
           Or(Or(Or(Or(NestedJson(r), NestedSolution(r)), TopSolution(r)),
                 TopResult(r)),
              Null)
      /\ outcome.result.statistics =
           Or(Or(Opt(r, "statistics"), Opt(Opt(r, "result"), "statistics")),
              Null)

\* C10 (as claimed): every output text that parses as JSON, with no status
\* field anywhere, gives status OPTIMAL; a parse failure is swallowed.
C10_ParsedImpliesOptimalAsClaimed ==
  /\ Extracted =>
       LET r == settled.value IN
       (OutputParses(r) /\ C10_NoStatusPresent(r)) =>
         outcome.result.status = Str("OPTIMAL")
  /\ C10_FailureSwallowed

\* C10 (amended): every output text that parses as JSON to a truthy value
\* (anything but null, false, 0 and ""), with no status field anywhere,
\* gives status OPTIMAL; a parse failure is swallowed and the result is
\* extracted from the structured fields alone.
C10_ParsedImpliesOptimal ==
  /\ Extracted =>
       LET r == settled.value IN
       (OutputParses(r) /\ Truthy(Parsed(r)) /\ C10_NoStatusPresent(r)) =>
         outcome.result.status = Str("OPTIMAL")
  /\ C10_FailureSwallowed

\* C10 witness: the text {} parses, carries no status, and gives OPTIMAL
C10_Witness ==
  /\ Extracted
  /\ OutputParses(settled.value)
  /\ Parsed(settled.value) = EmptyObj
  /\ C10_NoStatusPresent(settled.value)
  /\ outcome.result.status = Str("OPTIMAL")

\* C11 (as claimed): extracting again from a result that solve returned
\* gives the same status, solution and statistics.
C11_NormalizationIdempotent ==
  (npc = "again" /\ settled.kind = "resolved") =>
    /\ renorm.kind = "resolved"
    /\ renorm.result.status = outcome.result.status
    /\ renorm.result.solution = outcome.result.solution
    /\ renorm.result.statistics = outcome.result.statistics

\* C12 (as claimed): a solve whose time limit has elapsed while it waits for
\* the engine eventually completes.
C12_SolveEventuallyCompletes ==
  \A c \in Slots :
    (calls[c].pc = "awaitSolve" /\ calls[c].expired) ~>
      (calls[c].pc # "awaitSolve")

\* C13: the engine's solve is invoked only by a call that moves to
\* `await solve`, once per such move; a call that waits for the engine
\* either keeps waiting or completes, reported once and with no further
\* submission; so no call submits the model more than once.
C13_NoInternalRetry ==
  /\ [](engineSolves <= issued)
  /\ [][ /\ engineSolves' # engineSolves =>
               /\ engineSolves' = engineSolves + 1
               /\ \E c \in Slots :
                    /\ calls[c].pc # "awaitSolve"
                    /\ calls'[c].pc = "awaitSolve"
         /\ \A c \in Slots :
              calls[c].pc = "awaitSolve" =>
                \/ /\ calls'[c].pc = "awaitSolve"
                   /\ calls'[c].solver = calls[c].solver
                \/ /\ calls'[c] = Idle
                   /\ completed' = completed + 1
                   /\ last'.submitted
                   /\ last'.solver = calls[c].solver
                   /\ engineSolves' = engineSolves ]_vars

\* C13 witness: the only solve issued has failed in the engine and was
\* reported with status ERROR after a single submission
C13_Witness ==
  /\ engineSolves = 1
  /\ \A c \in Slots : calls[c] = Idle
  /\ last.op \in SolveOps /\ last.submitted
  /\ last.outcome.kind = "resolved"
  /\ last.outcome.result.status = Str("ERROR")
  /\ last.outcome.result.errorMessage = Str("MiniZinc exited with code 1")

\* C15: no call for a solver of the context's capability set ends with the
\* unsupported-solver error; such a call is handed to the engine with that
\* solver as soon as the session is initialized (at the call, or when solve
\* resumes after its init); and the default solvers, cbc under Node.js and
\* gecode in the browser, are in their context's capability set.
C15_SupportedSolverAccepted ==
  /\ [](last.outcome = Rejected("UnsupportedSolver") =>
          last.solver \notin CapabilitySet(mode))
  /\ [](/\ DEFAULT_SOLVER \in CapabilitySet("node")
        /\ SelectedSolver("local") \in CapabilitySet("node")
        /\ SelectedSolver("wasm") \in CapabilitySet("browser"))
  /\ [][ /\ \A c \in Slots :
               (/\ calls[c].pc = "check"
                /\ calls[c].solver \in CapabilitySet(mode)
                /\ calls'[c] # calls[c]) =>
                 /\ calls'[c].pc = "awaitSolve"
                 /\ calls'[c].solver = calls[c].solver
                 /\ engineSolves' = engineSolves + 1
         /\ (/\ initialized
             /\ CallIssued(SolveOps)
             /\ started'.solver \in CapabilitySet(mode)) =>
              /\ engineSolves' = engineSolves + 1
              /\ \E c \in Slots :
                   /\ calls[c] = Idle
                   /\ calls'[c].pc = "awaitSolve"
                   /\ calls'[c].solver = started'.solver ]_vars

\* C15 witness: in the browser a solve for gecode, the default there, called
\* before any init, is with the engine
C15_Witness ==
  /\ mode = "browser"
  /\ \E c \in Slots :
       /\ calls[c].pc = "awaitSolve"
       /\ calls[c].viaInit
       /\ calls[c].solver = SelectedSolver("wasm")

-----------------------------------------------------------------------------
(* Properties of getAvailableSolvers, checked under SpecCaps.              *)

\* the solver names listed in MINIZINC_AVAILABLE_SOLVERS
Listed(e) ==
  {e.MINIZINC_AVAILABLE_SOLVERS[i].name :
     i \in DOMAIN e.MINIZINC_AVAILABLE_SOLVERS} \ {""}

\* C14 (as claimed): the browser list never contains cp-sat and the Node.js
\* list never contains gecode, whatever the process environment.
C14_ListsAsClaimed ==
  reported.called =>
    /\ mode = "browser" => "cp-sat" \notin Range(reported.solvers)
    /\ mode = "node" => "gecode" \notin Range(reported.solvers)

\* C14 (amended): the browser list is gecode, chuffed, cbc and so never
\* contains cp-sat; the Node.js list is cbc, coinbc, cp-sat, chuffed, without
\* gecode, when MINIZINC_AVAILABLE_SOLVERS is unset or blank, and otherwise
\* it holds exactly the names that variable lists, gecode among them if
\* listed.
C14_AvailableSolvers ==
  reported.called =>
    /\ mode = "browser" =>
         /\ Range(reported.solvers) = {"gecode", "chuffed", "cbc"}
         /\ "cp-sat" \notin Range(reported.solvers)
    /\ (mode = "node" /\ ~EnvListGiven(env.MINIZINC_AVAILABLE_SOLVERS)) =>
         /\ Range(reported.solvers) = {"cbc", "coinbc", "cp-sat", "chuffed"}
         /\ "gecode" \notin Range(reported.solvers)
    /\ (mode = "node" /\ EnvListGiven(env.MINIZINC_AVAILABLE_SOLVERS)) =>
         /\ Range(reported.solvers) = Listed(env)
         /\ "" \notin Range(reported.solvers)

\* C14 witness: MINIZINC_AVAILABLE_SOLVERS lists gecode and the Node.js
\* service reports it
C14_Witness ==
  /\ reported.called
  /\ mode = "node"
  /\ "gecode" \in Listed(env)
  /\ "gecode" \in Range(reported.solvers)

-----------------------------------------------------------------------------
(* Properties of parseCSV, checked under SpecCsv.                          *)

Accepted == parsedCsv.called /\ ~parsedCsv.res.threw

\* C16: for an accepted text the four arrays have num_players elements, and
\* at every index the rating, the position and the position index are those
\* of the player at that index.
C16_ArraysAligned ==
  Accepted =>
    LET r == parsedCsv.res IN
    /\ r.num_players >= 1
    /\ Len(r.players) = r.num_players
    /\ Len(r.ratings) = r.num_players
    /\ Len(r.positions) = r.num_players
    /\ Len(r.position_indices) = r.num_players
    /\ \A i \in 1..r.num_players :
         /\ r.ratings[i] = r.players[i].rating
         /\ r.positions[i] = r.players[i].position
         /\ r.position_indices[i] = PositionIndex(r.players[i].position)

\* C16 witness: the row with the unparsable rating is skipped and the row
\* after it, of another position, is the first player
C16_Witness ==
  /\ Accepted
  /\ csvText = JoinLines(<<<<"n", "a", "m", "e", ",", "r", "a", "t", "i", "n", "g", ",", "p", "o", "s", "i", "t", "i", "o", "n">>,
                           <<"C", "a", "r", "a", ",", "x", ",", "m", "i", "d", "f", "i", "e", "l", "d">>,
                           <<"A", "o", "i", "f", "e", ",", "8", ",", "f", "o", "r", "w", "a", "r", "d">>>>)
  /\ parsedCsv.res.num_players = 1
  /\ parsedCsv.res.ratings = <<8>>
  /\ parsedCsv.res.position_indices = <<Num("1")>>

\* the lines after the header, the column of the rating, and the rating and
\* the number of cells of a row
DataRows == Tail(Split(StrTrim(csvText), "\n"))
RatingColumn ==
  LET cells == Split(Head(Split(StrTrim(csvText), "\n")), ",") IN
  IndexOf([k \in DOMAIN cells |-> ToLowerCase(StrTrim(cells[k]))], W_rating)
RatingOf(row) ==
  ParseInt(OptTrim(At(Split(StrTrim(row), ","), RatingColumn)))
CellCount(row) == Len(Split(StrTrim(row), ","))

\* the ratings of the rows that count, in the order of the rows; with
\* needTwo a row counts only if it has at least two cells
RECURSIVE RatingsOf(_, _)
RatingsOf(rows, needTwo) ==
  IF rows = <<>> THEN <<>>
  ELSE LET r == RatingOf(Head(rows))
           counts == ~r.nan /\ (needTwo => CellCount(Head(rows)) >= 2)
       IN (IF counts THEN <<r.n>> ELSE <<>>) \o RatingsOf(Tail(rows), needTwo)

\* parseCSV got past the checks of the line count and of the header
HeaderAccepted ==
  /\ parsedCsv.called
  /\ parsedCsv.res.error \notin
       {"CSV must have at least a header and one data row",
        "CSV must contain \"name\" and \"rating\" columns"}

C18_PositionsAsClaimed ==
  Accepted =>
    \A i \in 1..parsedCsv.res.num_players :
      LET position == parsedCsv.res.players[i].position
          index == parsedCsv.res.position_indices[i]
      IN /\ position \in {W_forward, W_midfield, W_defense, W_unknown}
         /\ index \in {Num("0"), Num("1"), Num("2"), Num("3")}
         /\ position = W_forward => index = Num("1")
         /\ position = W_midfield => index = Num("2")
         /\ position = W_defense => index = Num("3")
         /\ position = W_unknown => index = Num("0")

-----------------------------------------------------------------------------
(* Properties of the front-ends, checked under SpecFront.                  *)

\* a text without a data row, without a name or rating column, or without
\* a row with a valid rating: one the shared parseCSV refuses
Malformed(text) == parseCSV(text).threw

\* C19 (as claimed): whatever front-end handles a malformed CSV text reports
\* an error and submits nothing to the engine.
C19_MalformedCsvNeverSubmitted ==
  (handled.by # "none" /\ Malformed(csvText)) => handled.kind = "error"

\* the embedded model text that belongs to each registered scenario
EmbeddedModel ==
  [ratings_only |-> "RATINGS_ONLY_MODEL",
   with_positions |-> "WITH_POSITIONS_MODEL",
   balanced_positions |-> "BALANCED_POSITIONS_MODEL"]

OwnModel(by, id) == IF by = "wasm" THEN EmbeddedModel[id] ELSE SCENARIOS[id]

\* C20 (as claimed): a request with a well-formed CSV text and a non-empty
\* scenario id that is not registered ends in the unknown-scenario error and is never
\* submitted; one with a registered id is submitted with that id's model.
C20_UnknownScenarioRejected ==
  (handled.by # "none" /\ scenario.given /\ scenario.id # ""
     /\ ~Malformed(csvText)) =>
    IF scenario.id \in DOMAIN SCENARIOS
      THEN /\ handled.kind = "submitted"
           /\ handled.model = OwnModel(handled.by, scenario.id)
      ELSE /\ handled.kind = "error"
           /\ handled.error = "Unknown scenario"

-----------------------------------------------------------------------------
(* Further properties of the session, checked under Spec.                  *)

\* C28: the engine's solve is invoked only while the session is initialized;
\* a solve called on an uninitialized session starts an engine initialization
\* and no engine solve; and when that initialization fails the solve throws
\* the initialization error, was never submitted to the engine and leaves
\* `initialized` as it was.
C28_SolveOnlyWhenInitialized ==
  /\ [](\A c \in Slots : calls[c].pc \in {"check", "awaitSolve"} => initialized)
  /\ [][ /\ engineSolves' # engineSolves => initialized /\ initialized'
         /\ (~initialized /\ CallIssued(SolveOps)) =>
              /\ engineInits' = engineInits + 1
              /\ engineSolves' = engineSolves
              /\ \E c \in Slots : calls'[c].pc = "awaitInit" /\ calls'[c].viaInit
         /\ (engineInitFailures' # engineInitFailures
               /\ CallCompleted(SolveOps)) =>
              /\ last'.outcome = Rejected("InitializationError")
              /\ ~last'.submitted
              /\ engineSolves' = engineSolves
              /\ initialized' = initialized ]_vars

\* C28 witness: a solve called on the uninitialized session has thrown the
\* initialization error; the engine has solved nothing and the session is
\* uninitialized
C28_Witness ==
  /\ ~initialized
  /\ started.op = "solve" /\ ~started.onReady
  /\ last.op = "solve"
  /\ last.engineInit = "failed"
  /\ last.outcome = Rejected("InitializationError")
  /\ engineInits = 1
  /\ engineSolves = 0

\* C29 (as claimed): while a call is waiting for the engine initialization
\* it started, no other call starts an engine initialization.
C29_SingleEngineInit ==
  [][ (\E c \in Slots : calls[c].pc = "awaitInit") =>
        engineInits' = engineInits ]_vars

\* C30 (as claimed): in every mode isSolverAvailable(s) holds exactly for the
\* elements of getAvailableSolvers(), and a solve is rejected at the
\* capability check exactly when its solver is not in getAvailableSolvers().
C30_CheckAgreesWithList ==
  /\ \A s \in SolverIds :
       isSolverAvailable(mode, s) <=> s \in Range(getAvailableSolvers(mode, env))
  /\ (last.op \in SolveOps /\ last.engineInit # "failed") =>
       (last.outcome = Rejected("UnsupportedSolver")
          <=> last.solver \notin Range(getAvailableSolvers(mode, env)))

-----------------------------------------------------------------------------
(* A further property of the normalization, checked under SpecNorm.        *)

\* the number of players in the payload of the call whose reply is
\* normalized: the one the engine's sample assignments are for
PayloadPlayers == Len(Assign10.f.assignment.e)

\* x is an assignment array for n players
IsAssignment(x, n) ==
  /\ x.t = "arr"
  /\ Len(x.e) = n
  /\ \A i \in DOMAIN x.e : x.e[i] \in {Num("0"), Num("1")}

\* C21 (as claimed): a result returned with status OPTIMAL or SATISFIED
\* carries an assignment array with one element per player, each 0 or 1.
C21_AssignmentWellFormed ==
  (Extracted /\ outcome.result.status \in {Str("OPTIMAL"), Str("SATISFIED")}) =>
    IsAssignment(Opt(outcome.result.solution, "assignment"), PayloadPlayers)

-----------------------------------------------------------------------------
(* A further property of the CSV parsers, checked under SpecCsv.           *)

Columns == 1..3
ColumnOrders == {perm \in [Columns -> Columns] : \A c \in Columns : \E k \in Columns : perm[k] = c}

\* every line of the text has three cells, and the header names the name,
\* rating and position columns
Rectangular(text) ==
  LET lines == Split(StrTrim(text), "\n") IN
  /\ \A i \in DOMAIN lines : Len(Split(lines[i], ",")) = 3
  /\ {ToLowerCase(StrTrim(h)) : h \in Range(Split(lines[1], ","))}
       = {W_name, W_rating, W_position}

\* the line with its cells in the order perm
PermuteLine(line, perm) ==
  LET cells == Split(line, ",") IN
  cells[perm[1]] \o <<",">> \o cells[perm[2]] \o <<",">> \o cells[perm[3]]

\* the text with the columns of the header and of every row in the order perm
PermuteColumns(text, perm) ==
  LET lines == Split(StrTrim(text), "\n") IN
  JoinLines([i \in DOMAIN lines |-> PermuteLine(lines[i], perm)])

\* C27 (as claimed): for a text with name, rating and position columns,
\* each parser returns for every order of the columns what it returned for
\* the text as given.
C27_ColumnOrderIrrelevant ==
  Rectangular(csvText) =>
    \A perm \in ColumnOrders :
      /\ parsedCsv.called =>
           parseCSV(PermuteColumns(csvText, perm)) = parsedCsv.res
      /\ bundleParsed.called =>
           parseCSVBundle(PermuteColumns(csvText, perm)) = bundleParsed.res

-----------------------------------------------------------------------------
(* Properties of the team split, checked under SpecTeams.                  *)

\* the players of ps assigned to Team A (wantA) or not, in the order of ps
RECURSIVE Members(_, _, _)
Members(ps, a, wantA) ==
  IF ps = <<>> THEN <<>>
  ELSE (IF (Head(a) = 0) = wantA THEN <<Head(ps)>> ELSE <<>>)
         \o Members(Tail(ps), Tail(a), wantA)

SameLength == Len(roster.assignment) = Len(roster.players)

\* the split is the one the assignment describes
SplitAsAssigned ==
  /\ teams.teamA = Members(roster.players, roster.assignment, TRUE)
  /\ teams.teamB = Members(roster.players, roster.assignment, FALSE)
  /\ Len(teams.teamA) + Len(teams.teamB) = Len(roster.players)

-----------------------------------------------------------------------------
(* Properties of the page, checked under SpecPage.                         *)

\* C23 (as claimed): when a click handler that started a solve finishes,
\* the results panel is active and shows a team split or an error message.
C23_ResultOrErrorShown ==
  [][ page'.finished # page.finished =>
        page'.resultsActive /\ page'.shows \in {"teams", "error"} ]_vars

\* C24 (as claimed): at most one solve is in flight, and the solve button is
\* disabled while one is.
C24_OneSolveInFlight ==
  /\ page.localInFlight + page.wasmInFlight <= 1
  /\ page.localInFlight + page.wasmInFlight > 0 => page.btnDisabled

\* C25 (as claimed): the result solve returned is, after every later step of
\* the front-end, as it was returned.
C25_ResultNotMutated == page.held = page.returned

\* C26 (as claimed): every solve was dispatched by the value currentMode
\* has now; mode detection replaces no value a solve went by.
C26_ModeFixedBeforeSolve == \A m \in page.usedModes : m = page.currentMode

====
